---- MODULE Spec2Model ----
(***************************************************************************)
(* Electric Maple: the server's RTP stamper (ems_gstreamer_pipeline.c) and *)
(* the client's XR render loop (em_remote_experience.cpp), as state        *)
(* machines.                                                                *)
(*                                                                         *)
(*   SpecStamper  the streaming thread pushing RTP packets through the     *)
(*                buffer probes on rtppay's src pad, the producer thread   *)
(*                running ems_gstreamer_pipeline_set_down_msg, and the     *)
(*                signaling thread's client-connected / -disconnected      *)
(*                handlers.                                                 *)
(*   SpecRender   the render thread running poll_and_render_frame and      *)
(*                destroy, and the decode thread producing samples.        *)
(*   SpecMain     android_main's loop: poll_events, onAppCmd and the       *)
(*                render call (SpecMainLive adds the thread's progress).   *)
(*   SpecSignaling the server's per-client peers: the signaling handlers,  *)
(*                on_offer_created, the tee's streaming thread and the     *)
(*                data channel (SpecSignalingLive adds their progress).    *)
(*   SpecSetup    android_main before and after the loop: the websocket    *)
(*                URI property, em_remote_experience_new and destroy       *)
(*                (SpecSetupLive adds the clock and the thread's progress).*)
(*   SpecChannels the server's data channels and their keep-alive timers.  *)
(*   SpecPipeline the server's pipeline: play, the bus watch, the source's *)
(*                end of stream and stop.                                  *)
(***************************************************************************)
EXTENDS Integers, Sequences, FiniteSets, TLC

(***************************************************************************)
(* Bounds of the model.                                                    *)
(***************************************************************************)
\* End-of-stream events the source produces in one run, and error or
\* warning messages elements post on the bus.
MaxSourceEos == 1
MaxPosted == 1

\* Access units (packets with the marker bit) pushed in one run; packets
\* without the marker bit are not counted and not bounded.
MaxAUs == 2
\* GBytes allocated by set_down_msg in one run (each call allocates one).
MaxMsgs == 2
\* gst_pad_add_probe calls in one run (one per client-connected event).
MaxInstalls == 2
\* em_remote_experience_poll_and_render_frame calls in one run.
MaxFrames == 4
\* Samples the decode thread produces in one run.
MaxSamples == 3
\* Calls of poll_and_render_frame the main loop makes in one run.
MaxRenders == 2
\* sdp-answer and candidate events the signaling server emits in one run.
MaxSigEvents == 2
\* Messages received on the data channel in one run.
MaxUpMsgs == 2

(***************************************************************************)
(* Program constants.                                                      *)
(***************************************************************************)
RTP_TWOBYTES_HDR_EXT_ID == 1
RTP_TWOBYTES_HDR_EXT_MAX_SIZE == 255

\* Signaling client ids (EmsClientId values).
Clients == {1, 2}

\* Encoded sizes os.bytes_written the model draws for a DownMessage: the
\* largest that fits a two-byte extension element, and one byte more.
MsgSizes == {RTP_TWOBYTES_HDR_EXT_MAX_SIZE, RTP_TWOBYTES_HDR_EXT_MAX_SIZE + 1}

\* Values extension_size may hold after a read that found no live GBytes: the
\* local is not initialized (line 258) and g_bytes_get_data(NULL, ...) leaves
\* it so; on released memory any value may be read. One value on each side
\* of the size test.
UninitSizes == {0, RTP_TWOBYTES_HDR_EXT_MAX_SIZE + 1}

\* XrEnvironmentBlendMode values; 0 in a sample's env_blend_mode is "unset".
XR_ENVIRONMENT_BLEND_MODE_OPAQUE == 1
XR_ENVIRONMENT_BLEND_MODE_ADDITIVE == 2
XR_ENVIRONMENT_BLEND_MODE_ALPHA_BLEND == 3

\* The renderer's DefaultBlackThreshold (line 1069), in hundredths like the
\* additive_black_threshold of the samples; its value is the renderer's and
\* differs from the thresholds the model's samples carry.
DefaultBlackThreshold == 10

\* The env_blend_mode values the model draws for a produced sample.
SampleBlendModes == {0, XR_ENVIRONMENT_BLEND_MODE_ADDITIVE,
                     XR_ENVIRONMENT_BLEND_MODE_ALPHA_BLEND}

\* The (env_blend_mode, additive_black_threshold) pairs of the metadata the
\* model draws: UNSET with a threshold the client must not take, ADDITIVE
\* with 0.02 and ALPHA_BLEND with 0.5.
SampleHints ==
    {<<0, 50>>, <<XR_ENVIRONMENT_BLEND_MODE_ADDITIVE, 2>>,
     <<XR_ENVIRONMENT_BLEND_MODE_ALPHA_BLEND, 50>>}

VARIABLES
    \* ---- server: struct ems_gstreamer_pipeline and the GLib heap ----
    downMsg_bytes,   \* egp->downMsg_bytes: 0 is NULL, else the id of a GBytes
    gbytes,          \* the GBytes ever allocated: id -> [size, live]
    sdm,             \* the thread in set_down_msg: [pc, size]
    probes,          \* buffer probes installed on rtppay's src pad
    peers,           \* clients whose webrtcbin is in the pipeline
    \* ---- server: the streaming thread ----
    st_pc,           \* idle / head (in a probe) / add (at line 288) / out
    pkt,             \* the packet in the probes; at "out", the one that left last
    extension_data,  \* the probe's local: id of the GBytes whose data it holds
    extension_size,  \* the probe's local
    read_state,      \* what the probe's read of the slot found
    markerOut,       \* packets that left the pad with the marker bit set
    stampedOut,      \* packets that left the pad carrying an extension
    dropped,         \* packets a probe return value made the pad drop
    removed,         \* probes a probe return value made the pad remove
    crashed,         \* "no", or the bad read the process died of
    \* ---- client: the stream client (decode thread side) ----
    ready,           \* the decoded sample waiting to be pulled (id 0: none)
    produced,        \* samples the decode thread has produced so far
    pulled,          \* ids of the samples try_pull_sample has returned
    released,        \* id -> number of release_sample calls for that sample
    sc_stopped,      \* em_stream_client_stop has run
    egl,             \* depth of the EGL scope held by the render thread
    \* ---- client: struct _EmRemoteExperience ----
    prev_sample,     \* exp->prev_sample (id 0: nullptr)
    nextUpMessage,   \* exp->nextUpMessage
    blend_mode,      \* the blend mode of exp->passthrough
    \* ---- client: the render thread ----
    rt_pc,           \* idle / inner / draw / adopt / assign / end / destroyed / aborted
    iter,            \* poll_and_render_frame calls so far
    sample,          \* the local of inner_poll_and_render_frame (id 0: nullptr)
    fr,              \* the locals of the running (at idle: the last) iteration
    sentIds,         \* up_message_id of every message handed to send_bytes
    \* ---- client: android_main, struct android_app and struct em_state ----
    ml_pc,           \* head / android / xr / render / in_render / cleanup
    window,          \* app->window is set
    activityState,   \* app->activityState
    destroyRequested,\* app->destroyRequested
    lastCmd,         \* the last app command handled, and what its handler did
    connected,       \* state.connected
    conn,            \* the EmConnection: connecting / connected / disconnected
    renders,         \* calls of poll_and_render_frame made by the loop
    sessionState,    \* state.sessionState
    lastEvent,       \* the last session-state-changed event, and the calls
                     \* its case made
    \* ---- server: the per-client peers and the data channel ----
    peer,            \* client id -> the webrtcbin made for that client
    nsig,            \* sdp-answer and candidate events handled so far
    sig,             \* the last such event, and the peers it was applied to
    inbox,           \* the data-channel messages received so far
    tracking,        \* the messages handed to the tracking callback
    \* ---- client: android_main before the main loop, and after it ----
    su_pc,           \* find / loop / uri_returned / the step of
                     \* em_remote_experience_new / new_returned / destroyed
    prop,            \* the platform property: "unset", or its value
    cb_pending,      \* the read callback was asked for and has not run
    now,             \* milliseconds since read_websocket_uri_property began
    wait_duration_ms,\* the local of read_websocket_uri_property
    property_received,
    property_result,
    deliveredAt,     \* the time property_read_cb ran at (-1: it has not)
    websocket_uri_property, \* what read_websocket_uri_property returned
    connection_uri,  \* the URI state.connection was made for ("none": not yet)
    \* ---- server: the data channels and their keep-alive timers ----
    data_channel,    \* egp->data_channel: the client whose channel it is (0:
                     \* NULL)
    timeout_src_id,  \* egp->timeout_src_id (0: none)
    chan,            \* client id -> none / created / open / closed
    timers,          \* the timeout sources added so far, by source id: the
                     \* channel each sends on and whether it is still attached
    unrefs,          \* client id -> how often g_clear_object dropped the
                     \* reference to that client's channel
    lastFire,        \* the last run of datachannel_send_message
    \* ---- server: the pipeline, its bus and ems_gstreamer_pipeline_stop ----
    pl_pc,           \* created / playing / get_state / send_eos / pop /
                     \* set_null / stopped / returned
    pl_state,        \* the pipeline's GstState
    bus,             \* the messages on the pipeline's bus
    flight,          \* EOS events travelling from the source to the sinks
    src_eos,         \* EOS events the source has produced
    restart_tasks,   \* restart_source idle tasks scheduled
    posted,          \* error and warning messages posted so far
    popped,          \* what gst_bus_timed_pop_filtered returned to stop
    watched,         \* the last message gst_bus_cb handled
    pl_crashed,      \* "no", or the fatal message the process died with
    nx               \* the EmRemoteExperience under construction, the XR
                     \* runtime's handles and the EGL scope

stamperVars == <<downMsg_bytes, gbytes, sdm, probes, peers, st_pc, pkt,
                 extension_data, extension_size, read_state, markerOut,
                 stampedOut, dropped, removed, crashed>>

renderVars == <<ready, produced, pulled, released, sc_stopped, egl,
                prev_sample, nextUpMessage, blend_mode, rt_pc, iter, sample,
                fr, sentIds>>

mainVars == <<ml_pc, window, activityState, destroyRequested, lastCmd,
              connected, conn, renders, sessionState, lastEvent>>

sigVars == <<peer, nsig, sig, inbox, tracking>>

setupVars == <<su_pc, prop, cb_pending, now, wait_duration_ms,
               property_received, property_result, deliveredAt,
               websocket_uri_property, connection_uri, nx>>

chanVars == <<data_channel, timeout_src_id, chan, timers, unrefs, lastFire>>

pipeVars == <<pl_pc, pl_state, bus, flight, src_eos, restart_tasks, posted,
              popped, watched, pl_crashed>>

vars == <<stamperVars, renderVars, mainVars, sigVars, setupVars, chanVars,
          pipeVars>>

\* A packet: its marker bit, whether gst_rtp_buffer_map accepts it, whether
\* its header has room for one more two-byte extension element, the probes
\* still to run on it, and one entry per probe that ran: the path taken, the
\* size and the kind of read of the published GBytes, and the id of the
\* element added (0: none).
NoPkt == [marker |-> FALSE, mapOk |-> TRUE, addOk |-> TRUE, todo |-> 0,
          trail |-> <<>>]

\* The extension elements a packet carries.
Elements(p) == SelectSeq(p.trail, LAMBDA e : e.path = "stamped")

InitStamper ==
    /\ downMsg_bytes = 0
    /\ gbytes = <<>>
    /\ sdm = [pc |-> "idle", size |-> 0]
    /\ probes = 0
    /\ peers = {}
    /\ st_pc = "idle"
    /\ pkt = NoPkt
    /\ extension_data = 0
    /\ extension_size = 0
    /\ read_state = "none"
    /\ markerOut = 0
    /\ stampedOut = 0
    /\ dropped = 0
    /\ removed = 0
    /\ crashed = "no"

\* struct em_sample as the experience uses it: the two view poses the frame
\* was rendered for, the blend mode hint with its black threshold (in
\* hundredths) and the frame sequence id. A sample whose access unit carried
\* no metadata has mode 0, threshold 0 and zero poses. pulled_iter is not a
\* field of the struct: it records the iteration whose try_pull_sample
\* returned the sample.
NoSample == [id |-> 0, env_blend_mode |-> 0, additive_black_threshold |-> 0,
             poses |-> <<0, 0>>, frame_sequence_id |-> 0, pulled_iter |-> 0]

NewSample(id, mode, meta, thr) ==
    IF meta
      THEN [id |-> id, env_blend_mode |-> mode,
            additive_black_threshold |-> thr,
            poses |-> <<2 * id - 1, 2 * id>>, frame_sequence_id |-> id,
            pulled_iter |-> 0]
      ELSE [NoSample EXCEPT !.id = id]

\* The locals of one poll_and_render_frame call (lines 887-958) and a log of
\* the calls it made: frameState, projectionViews[i].pose (zero-initialized
\* by the aggregate initializer at lines 937-940), layer.layerFlags, the
\* layers array up to layerCount, envBlendMode, prResult, the call that
\* failed, the calls whose failure only skips a report (a time conversion,
\* xrLocateSpace), and the UpMessages handed to the connection.
NoFrame == [calls |-> <<>>, failed |-> "none", softFailed |-> {},
            shouldRender |-> FALSE,
            predictedDisplayTime |-> 0, projectionViews |-> <<0, 0>>,
            layerFlags |-> 0, layers |-> <<>>, envBlendMode |-> 0,
            prResult |-> "none", msgs |-> <<>>,
            drawInfo |-> [blend_mode |-> 0, black_threshold |-> 0]]

\* The state em_remote_experience_new leaves (lines 734-864): no sample held,
\* message ids starting at 1, passthrough asked for ADDITIVE (line 860).
InitRender ==
    /\ ready = NoSample
    /\ produced = 0
    /\ pulled = {}
    /\ released = [i \in 1..MaxSamples |-> 0]
    /\ sc_stopped = FALSE
    /\ egl = 0
    /\ prev_sample = NoSample
    /\ nextUpMessage = 1
    /\ blend_mode = XR_ENVIRONMENT_BLEND_MODE_ADDITIVE
    /\ rt_pc = "idle"
    /\ iter = 0
    /\ sample = NoSample
    /\ fr = NoFrame
    /\ sentIds = <<>>

\* No run of datachannel_send_message yet.
NoFire == [timer |-> 0, channel |-> 0, state |-> "none"]

\* XrSessionState values (openxr.h); state.sessionState starts at 0, the
\* value of the zero-initialized struct (line 80).
XR_SESSION_STATE_IDLE == 1
XR_SESSION_STATE_READY == 2
XR_SESSION_STATE_STOPPING == 6
XR_SESSION_STATE_LOSS_PENDING == 7
XR_SESSION_STATE_EXITING == 8
SessionStates == XR_SESSION_STATE_IDLE..XR_SESSION_STATE_EXITING

\* The app commands onAppCmd names (lines 86-100).
AppCmds == {"APP_CMD_START", "APP_CMD_RESUME", "APP_CMD_PAUSE", "APP_CMD_STOP",
            "APP_CMD_DESTROY", "APP_CMD_INIT_WINDOW", "APP_CMD_TERM_WINDOW"}

\* The record of a handled command: whether its case called
\* em_connection_disconnect, and state.connected before and after it.
NoCmd == [cmd |-> "none", disconnect |-> FALSE, flagBefore |-> FALSE,
          flagAfter |-> FALSE]

\* The record of a handled session-state-changed event.
NoEvent == [state |-> 0, xrBeginSession |-> 0, xrEndSession |-> 0]

\* android_main on entering the main loop (lines 293-513): no command has
\* been polled yet, em_connection_connect has been called (line 489).
InitMain ==
    /\ ml_pc = "head"
    /\ window = FALSE
    /\ activityState = "none"
    /\ destroyRequested = FALSE
    /\ lastCmd = NoCmd
    /\ connected = FALSE
    /\ conn = "connecting"
    /\ renders = 0
    /\ sessionState = 0
    /\ lastEvent = NoEvent

\* A client for which no webrtcbin has been made. log holds the calls made
\* on the element in order; offer counts the steps of on_offer_created done;
\* sink0 is the request pad sink_0; probe is the blocking probe on the tee
\* pad linked to sink_0; remote and cands count the descriptions and the
\* candidates applied; fed and fedRemoved tell whether a buffer reached the
\* element, before and after its removal.
NoPeer == [made |-> FALSE, inBin |-> FALSE, state |-> "none", log |-> <<>>,
           offer |-> 0, offerTo |-> 0, sink0 |-> FALSE, linked |-> FALSE,
           disconnected |-> FALSE, probe |-> FALSE, removals |-> 0,
           remote |-> 0, cands |-> 0, fed |-> FALSE,
           fedRemoved |-> FALSE]

NoSig == [kind |-> "none", client |-> 0, ok |-> FALSE]

\* The pipeline after ems_gstreamer_pipeline_create (lines 707-804): no
\* client has connected.
InitSignaling ==
    /\ peer = [c \in Clients |-> NoPeer]
    /\ nsig = 0
    /\ sig = NoSig
    /\ inbox = <<>>
    /\ tracking = <<>>

\* Line 480: the budget android_main gives read_websocket_uri_property.
timeout_ms == 5000

\* The step of the model's clock.
TimeStep == timeout_ms \div 4

\* The XR handles em_remote_experience_new creates (struct xr_owned).
XrHandles == {"swapchain", "worldSpace", "viewSpace"}

\* Nothing constructed: no EmRemoteExperience, no handle created, the
\* stream client running, the EGL scope free. handle[h] is the field of
\* xr_owned; created[h] and destroyed[h] count the runtime calls; egl is the
\* depth of the scope; log holds the EGL-related calls with the depth each
\* was made at.
NoExperience ==
    [self |-> "none", ret |-> "none", failed |-> "none",
     stream_client |-> "running", connection |-> "connecting",
     renderer |-> FALSE, prev_sample |-> 0,
     handle |-> [h \in XrHandles |-> FALSE],
     created |-> [h \in XrHandles |-> 0],
     destroyed |-> [h \in XrHandles |-> 0],
     egl |-> 0, log |-> <<>>]

\* android_main at line 478, before the property is read.
InitSetup ==
    /\ su_pc = "find"
    /\ prop = "unknown"
    /\ cb_pending = FALSE
    /\ now = 0
    /\ wait_duration_ms = 0
    /\ property_received = FALSE
    /\ property_result = ""
    /\ deliveredAt = -1
    /\ websocket_uri_property = ""
    /\ connection_uri = "none"
    /\ nx = NoExperience

\* The state ems_gstreamer_pipeline_create leaves (lines 762-776): the struct
\* is calloc'ed, so no channel and no timer; no client has a channel yet.
InitChannels ==
    /\ data_channel = 0
    /\ timeout_src_id = 0
    /\ chan = [c \in Clients |-> "none"]
    /\ timers = <<>>
    /\ unrefs = [c \in Clients |-> 0]
    /\ lastFire = NoFire

\* The pipeline gst_parse_launch made (line 770), with the bus watch added
\* (line 776): state NULL, nothing on the bus, play not yet called.
InitPipeline ==
    /\ pl_pc = "created"
    /\ pl_state = "GST_STATE_NULL"
    /\ bus = <<>>
    /\ flight = 0
    /\ src_eos = 0
    /\ restart_tasks = 0
    /\ posted = 0
    /\ popped = "none"
    /\ watched = "none"
    /\ pl_crashed = "no"

Init ==
    /\ InitStamper /\ InitRender /\ InitMain /\ InitSignaling /\ InitSetup
    /\ InitChannels /\ InitPipeline

(***************************************************************************)
(* ems_gstreamer_pipeline_set_down_msg, the producer thread.               *)
(***************************************************************************)
\* g_bytes_unref on the only reference frees the GBytes.
g_bytes_unref(heap, b) == [heap EXCEPT ![b] = [size |-> 0, live |-> FALSE]]

\* g_bytes_new: a fresh GBytes holding a copy of the encoded message.
g_bytes_new(heap, size) == Append(heap, [size |-> size, live |-> TRUE])

\* Lines 627-638: encode; on success release the published GBytes, if any.
\* The slot still holds the released pointer when this step ends.
SetDownMsgBegin(size, encOk) ==
    /\ crashed = "no"
    /\ sdm.pc = "idle"
    /\ Len(gbytes) < MaxMsgs
    /\ IF ~encOk
         THEN UNCHANGED <<sdm, gbytes>>
         ELSE IF downMsg_bytes # 0
                THEN /\ gbytes' = g_bytes_unref(gbytes, downMsg_bytes)
                     /\ sdm' = [pc |-> "unreffed", size |-> size]
                ELSE /\ sdm' = [pc |-> "new", size |-> size]
                     /\ UNCHANGED gbytes
    /\ UNCHANGED <<downMsg_bytes, probes, peers, st_pc, pkt, extension_data,
                   extension_size, read_state, markerOut,
                   stampedOut, dropped, removed, crashed>>
    /\ UNCHANGED <<renderVars, mainVars, sigVars, setupVars, chanVars, pipeVars>>

\* Line 637: egp->downMsg_bytes = NULL.
SetDownMsgClear ==
    /\ crashed = "no"
    /\ sdm.pc = "unreffed"
    /\ downMsg_bytes' = 0
    /\ sdm' = [sdm EXCEPT !.pc = "new"]
    /\ UNCHANGED <<gbytes, probes, peers, st_pc, pkt, extension_data,
                   extension_size, read_state, markerOut,
                   stampedOut, dropped, removed, crashed>>
    /\ UNCHANGED <<renderVars, mainVars, sigVars, setupVars, chanVars, pipeVars>>

\* Line 640: egp->downMsg_bytes = g_bytes_new(buf, os.bytes_written).
SetDownMsgPublish ==
    /\ crashed = "no"
    /\ sdm.pc = "new"
    /\ gbytes' = g_bytes_new(gbytes, sdm.size)
    /\ downMsg_bytes' = Len(gbytes) + 1
    /\ sdm' = [pc |-> "idle", size |-> 0]
    /\ UNCHANGED <<probes, peers, st_pc, pkt, extension_data, extension_size,
                   read_state, markerOut, stampedOut, dropped,
                   removed, crashed>>
    /\ UNCHANGED <<renderVars, mainVars, sigVars, setupVars, chanVars, pipeVars>>

(***************************************************************************)
(* The signaling thread: client-connected and client-disconnected.         *)
(***************************************************************************)
\* Lines 305-325: rtppay and its src pad exist in the parsed pipeline, so the
\* function always reaches gst_pad_add_probe: one more probe on the pad.
ems_gstreamer_pipeline_add_payload_pad_probe(n) == n + 1

\* Lines 329-397: a webrtcbin for the client joins the pipeline, and the
\* payload pad probe is added.
webrtc_client_connected_cb(c) ==
    /\ crashed = "no"
    /\ c \notin peers
    /\ probes < MaxInstalls
    /\ peers' = peers \cup {c}
    /\ probes' = ems_gstreamer_pipeline_add_payload_pad_probe(probes)
    /\ UNCHANGED <<downMsg_bytes, gbytes, sdm, st_pc, pkt, extension_data,
                   extension_size, read_state, markerOut,
                   stampedOut, dropped, removed, crashed>>
    /\ UNCHANGED <<renderVars, mainVars, sigVars, setupVars, chanVars, pipeVars>>

\* Lines 462-491: the client's webrtcbin is taken out of the pipeline (by the
\* blocking probe the handler adds). Nothing here touches the probes on
\* rtppay's src pad.
webrtc_client_disconnected_cb(c) ==
    /\ crashed = "no"
    /\ c \in peers
    /\ peers' = peers \ {c}
    /\ UNCHANGED <<downMsg_bytes, gbytes, sdm, probes, st_pc, pkt,
                   extension_data, extension_size, read_state, markerOut,
                   stampedOut, dropped, removed, crashed>>
    /\ UNCHANGED <<renderVars, mainVars, sigVars, setupVars, chanVars, pipeVars>>

(***************************************************************************)
(* The streaming thread: webrtcbin_srcpad_probe on every installed probe.  *)
(***************************************************************************)
\* Mutant: the size test off by one.
extension_too_large_off_by_one(size) == size > RTP_TWOBYTES_HDR_EXT_MAX_SIZE + 1

\* Line 281.
extension_too_large(size) == size > RTP_TWOBYTES_HDR_EXT_MAX_SIZE

\* Mutant: the marker test left out.
passes_unstamped_never(marker) == FALSE

\* Line 273: only a packet with the marker bit goes on to be stamped.
passes_unstamped(marker) == ~marker

\* Lines 288-289: the element id the extension data is added under.
ElementId(path) == IF path = "stamped" THEN RTP_TWOBYTES_HDR_EXT_ID ELSE 0

\* Mutant: the oversize path drops the buffer.
ProbeReturnValue_drop_oversize(path) ==
    IF path = "oversize" THEN "GST_PAD_PROBE_DROP" ELSE "GST_PAD_PROBE_OK"

\* Lines 269, 275, 285, 291, 301: what the probe returns on each path.
ProbeReturnValue(path) == "GST_PAD_PROBE_OK"

\* The packet leaves the pad and reaches the tee.
Deliver(p) ==
    /\ pkt' = p
    /\ st_pc' = "out"
    /\ markerOut' = markerOut + (IF p.marker THEN 1 ELSE 0)
    /\ stampedOut' = stampedOut + (IF Elements(p) # <<>> THEN 1 ELSE 0)

\* The pad's handling of a probe's return value (gst_pad_add_probe, line
\* 321): OK goes on to the next probe or downstream, DROP discards the
\* buffer, REMOVE takes the probe off the pad and goes on.
ProbeReturns(path, size, read) ==
    LET ret == ProbeReturnValue(path)
        p   == [pkt EXCEPT !.trail = Append(@, [path |-> path, size |-> size,
                                                 read |-> read,
                                                 id |-> ElementId(path)]),
                           !.todo = @ - 1]
    IN  /\ extension_data' = 0
        /\ extension_size' = 0
        /\ read_state' = "none"
        /\ IF ret = "GST_PAD_PROBE_DROP"
             THEN /\ dropped' = dropped + 1
                  /\ pkt' = NoPkt
                  /\ st_pc' = "idle"
                  /\ UNCHANGED <<markerOut, stampedOut, probes, removed>>
             ELSE /\ IF ret = "GST_PAD_PROBE_REMOVE"
                       THEN probes' = probes - 1 /\ removed' = removed + 1
                       ELSE UNCHANGED <<probes, removed>>
                  /\ UNCHANGED dropped
                  /\ IF p.todo > 0
                       THEN /\ pkt' = p
                            /\ st_pc' = "head"
                            /\ UNCHANGED <<markerOut, stampedOut>>
                       ELSE Deliver(p)

\* rtph264pay pushes a buffer on its src pad; every probe installed at that
\* moment will see it.
PushPacket(marker, mapOk, addOk) ==
    /\ crashed = "no"
    /\ st_pc \in {"idle", "out"}
    /\ marker => markerOut < MaxAUs
    /\ LET p == [marker |-> marker, mapOk |-> mapOk, addOk |-> addOk,
                 todo |-> probes, trail |-> <<>>]
       IN  IF probes = 0
             THEN Deliver(p)
             ELSE /\ pkt' = p
                  /\ st_pc' = "head"
                  /\ UNCHANGED <<markerOut, stampedOut>>
    /\ UNCHANGED <<downMsg_bytes, gbytes, sdm, probes, peers, extension_data,
                   extension_size, read_state, dropped, removed, crashed>>
    /\ UNCHANGED <<renderVars, mainVars, sigVars, setupVars, chanVars, pipeVars>>

\* What a read of the slot finds when it holds no live GBytes.
BadSlot ==
    IF downMsg_bytes # 0 THEN "freed"
    ELSE IF gbytes = <<>> THEN "unpublished" ELSE "empty"

\* Lines 279-286 with the size and data pointer the read produced.
ProbeGotData(size, data, read) ==
    IF extension_too_large(size)
      THEN /\ ProbeReturns("oversize", size, read)
           /\ UNCHANGED crashed
      ELSE /\ extension_data' = data
           /\ extension_size' = size
           /\ read_state' = read
           /\ st_pc' = "add"
           /\ UNCHANGED <<pkt, markerOut, stampedOut, probes, dropped,
                          removed, crashed>>

\* Lines 262-286: map the buffer, test the marker bit, read the published
\* GBytes (pointer and size; no reference is taken) and test its size.
ProbeHead ==
    /\ crashed = "no"
    /\ st_pc = "head"
    /\ IF ~pkt.mapOk
         THEN ProbeReturns("mapfail", 0, "none") /\ UNCHANGED crashed
         ELSE IF passes_unstamped(pkt.marker)
           THEN ProbeReturns("nomarker", 0, "none") /\ UNCHANGED crashed
           ELSE IF downMsg_bytes # 0 /\ gbytes[downMsg_bytes].live
             THEN ProbeGotData(gbytes[downMsg_bytes].size, downMsg_bytes, "live")
             ELSE \* g_bytes_get_data on NULL or on released memory
                  \/ /\ crashed' = BadSlot
                     /\ UNCHANGED <<pkt, st_pc, extension_data, extension_size,
                                    read_state, markerOut, stampedOut,
                                    probes, dropped, removed>>
                  \/ \E s \in UninitSizes :
                        ProbeGotData(s, downMsg_bytes, BadSlot)
    /\ UNCHANGED <<downMsg_bytes, gbytes, sdm, peers>>
    /\ UNCHANGED <<renderVars, mainVars, sigVars, setupVars, chanVars, pipeVars>>

\* Lines 288-301: gst_rtp_buffer_add_extension_twobytes_header copies
\* extension_size bytes from extension_data into the packet.
ProbeAdd ==
    /\ crashed = "no"
    /\ st_pc = "add"
    /\ LET sound == read_state = "live" /\ gbytes[extension_data].live
           read  == IF sound THEN "live"
                    ELSE IF read_state = "live" THEN "freed" ELSE read_state
           path  == IF pkt.addOk THEN "stamped" ELSE "addfail"
       IN  \/ /\ ProbeReturns(path, extension_size, read)
              /\ UNCHANGED crashed
           \/ /\ ~sound
              /\ crashed' = read
              /\ UNCHANGED <<pkt, st_pc, extension_data, extension_size,
                             read_state, markerOut, stampedOut, probes,
                             dropped, removed>>
    /\ UNCHANGED <<downMsg_bytes, gbytes, sdm, peers>>
    /\ UNCHANGED <<renderVars, mainVars, sigVars, setupVars, chanVars, pipeVars>>

NextStamper ==
    \/ \E size \in MsgSizes, encOk \in BOOLEAN : SetDownMsgBegin(size, encOk)
    \/ SetDownMsgClear
    \/ SetDownMsgPublish
    \/ \E c \in Clients : webrtc_client_connected_cb(c)
    \/ \E c \in Clients : webrtc_client_disconnected_cb(c)
    \/ \E marker \in BOOLEAN, mapOk \in BOOLEAN, addOk \in BOOLEAN :
          PushPacket(marker, mapOk, addOk)
    \/ ProbeHead
    \/ ProbeAdd

SpecStamper == Init /\ [][NextStamper]_vars

(***************************************************************************)
(* Claims about the stamper, checked under SpecStamper.                    *)
(***************************************************************************)
\* A probe run that read a published (live) GBytes of at most 255 bytes.
ReadSmallLive(e) == e.read = "live" /\ e.size <= 255

\* C1: of the RTP packets that leave the pad, only packets with the marker
\* bit carry an extension element, every element has id 1, and a packet with
\* the marker bit that a probe handled while a DownMessage of at most 255
\* bytes was published (the buffer maps as RTP and takes one more element)
\* got its element from that probe; so over the stream the packets carrying
\* an extension never outnumber the access units.
C1_StampOnMarkerOnly ==
    /\ \A i \in DOMAIN pkt.trail :
          LET e == pkt.trail[i]
          IN  /\ e.path = "stamped" => pkt.marker /\ e.id = 1
              /\ (pkt.marker /\ pkt.mapOk /\ pkt.addOk /\ ReadSmallLive(e))
                    => e.path = "stamped"
    /\ st_pc = "out" => (Elements(pkt) # <<>> => pkt.marker)
    /\ stampedOut <= markerOut

\* C1 witness: two access units left the pad, both stamped from a published
\* message of at most 255 bytes.
C1_Witness ==
    /\ st_pc = "out"
    /\ pkt.marker
    /\ markerOut = 2
    /\ stampedOut = 2
    /\ \E i \in DOMAIN pkt.trail :
          pkt.trail[i].path = "stamped" /\ ReadSmallLive(pkt.trail[i])

\* C2 (as claimed): the pad never holds more than one stamper probe, and no
\* packet leaves with more than one extension element.
C2_InstalledAtMostOnce ==
    /\ probes <= 1
    /\ st_pc = "out" => Len(Elements(pkt)) <= 1

\* C3: a probe run that read a published GBytes of more than 255 bytes adds
\* nothing and hands the packet on; no element is ever added from a size
\* above 255, whatever the marker bit.
C3_OversizeUnstamped ==
    /\ \A i \in DOMAIN pkt.trail :
          LET e == pkt.trail[i]
          IN  /\ (e.read = "live" /\ e.size > 255) => e.path = "oversize"
              /\ e.path \in {"stamped", "addfail"} => e.size <= 255
    /\ st_pc = "add" => extension_size <= 255

\* C3 witness: two access units left the pad unstamped, the last through a
\* probe that read an oversize published message.
C3_Witness ==
    /\ st_pc = "out"
    /\ pkt.marker
    /\ markerOut = 2
    /\ stampedOut = 0
    /\ \E i \in DOMAIN pkt.trail :
          /\ pkt.trail[i].path = "oversize"
          /\ pkt.trail[i].read = "live"
          /\ pkt.trail[i].size = 256

\* C4: no probe return value ever makes the pad drop a packet or remove the
\* probe: every return is the pass-through result.
C4_NeverDropsNeverRemoves ==
    /\ dropped = 0
    /\ removed = 0
    /\ st_pc = "out" => pkt.todo = 0

\* C4 witness: a packet left the pad after one probe took the oversize path
\* and the next the add-extension failure path.
C4_Witness ==
    /\ st_pc = "out"
    /\ Len(pkt.trail) = 2
    /\ pkt.trail[1].path = "oversize"
    /\ pkt.trail[2].path = "addfail"

\* C4 witness of the map-failure path.
C4_WitnessMapFail ==
    /\ st_pc = "out"
    /\ pkt.trail # <<>>
    /\ pkt.trail[1].path = "mapfail"

\* C5 (as claimed): the probe never reads a GBytes that was released, nor
\* the slot while set_down_msg has emptied it.
C5_SwapIsAtomic ==
    /\ read_state \notin {"empty", "freed"}
    /\ crashed \notin {"empty", "freed"}
    /\ \A i \in DOMAIN pkt.trail : pkt.trail[i].read \notin {"empty", "freed"}

(***************************************************************************)
(* The client. The stream client and the passthrough policy are used       *)
(* through their interfaces (em_stream_client.h, em_passthrough.hpp).      *)
(***************************************************************************)
\* The decode thread hands the stream client a decoded sample; a sample still
\* waiting there is displaced without ever being handed out.
ProduceSample(mode, meta, thr) ==
    /\ rt_pc \notin {"aborted", "destroyed"}
    /\ ~sc_stopped
    /\ produced < MaxSamples
    /\ produced' = produced + 1
    /\ ready' = NewSample(produced + 1, mode, meta, thr)
    /\ UNCHANGED <<pulled, released, sc_stopped, egl, prev_sample,
                   nextUpMessage, blend_mode, rt_pc, iter, sample, fr,
                   sentIds>>
    /\ UNCHANGED <<stamperVars, mainVars, sigVars, setupVars, chanVars, pipeVars>>

\* em_stream_client_release_sample: one more release of that sample.
em_stream_client_release_sample(rel, s) == [rel EXCEPT ![s.id] = @ + 1]

\* The samples checked out: pulled and not yet given back.
CheckedOut == {i \in pulled : released[i] = 0}

\* em_poll_render_result_include_layer (em_remote_experience.h).
em_poll_render_result_include_layer(res) ==
    res \in {"EM_POLL_RENDER_RESULT_NEW_SAMPLE",
             "EM_POLL_RENDER_RESULT_REUSED_SAMPLE"}

\* em::Passthrough::composition_layer: whether a passthrough layer goes under
\* the projection (insert: decided by the policy and the device), the blend
\* mode for xrEndFrame and the flags for the projection layer.
composition_layer(insert) ==
    [comp_layer |-> insert, env_blend_mode |-> blend_mode,
     projection_layer_flags |-> IF insert THEN 1 ELSE 0]

\* frameState.predictedDisplayTime of the n-th frame.
DisplayTime(n) == 1000 + n

\* Mutant: the counter advances only when the send succeeds.
fetch_add_nextUpMessage_on_success(next, sendOk) ==
    IF sendOk THEN next + 1 ELSE next

\* Line 626: exp->nextUpMessage++ (an atomic fetch-and-add), before the
\* message is encoded and whatever em_connection_send_bytes returns later.
fetch_add_nextUpMessage(next, sendOk) == next + 1

\* Lines 623-638: the message gets the value of the counter as its id, is
\* encoded and handed to em_connection_send_bytes, whose result is returned.
em_remote_experience_emit_upmessage(msgs, m, sendOk) ==
    Append(msgs, [m EXCEPT !.up_message_id = nextUpMessage,
                           !.sendOk = sendOk])

\* The state of the experience after the messages of one step were emitted:
\* every one took an id, was handed to send_bytes and advanced the counter.
Emitted(before, after, sendOk) ==
    IF Len(after) > Len(before)
      THEN /\ nextUpMessage' = fetch_add_nextUpMessage(nextUpMessage, sendOk)
           /\ sentIds' = Append(sentIds, after[Len(after)].up_message_id)
      ELSE UNCHANGED <<nextUpMessage, sentIds>>

(***************************************************************************)
(* The render thread: em_remote_experience_poll_and_render_frame.          *)
(***************************************************************************)
\* The calls of lines 889-951 in order; one of them may fail.
FrameCalls == <<"xrWaitFrame", "xrBeginFrame", "clock_gettime",
                "xrLocateViews", "em_stream_client_egl_begin_pbuffer">>

CallsUpTo(failed) ==
    IF failed = "none" THEN FrameCalls
    ELSE SubSeq(FrameCalls, 1,
                CHOOSE i \in DOMAIN FrameCalls : FrameCalls[i] = failed)

\* What lines 891-954 do when one of the calls fails.
FailureResult(failed) ==
    CASE failed = "xrWaitFrame" -> "EM_POLL_RENDER_RESULT_ERROR_WAITFRAME"
      [] failed = "xrBeginFrame" -> "abort"
      [] failed = "clock_gettime" -> "EM_POLL_RENDER_RESULT_SHOULD_NOT_RENDER"
      [] failed = "xrLocateViews" -> "EM_POLL_RENDER_RESULT_SHOULD_NOT_RENDER"
      [] failed = "em_stream_client_egl_begin_pbuffer" ->
             "EM_POLL_RENDER_RESULT_ERROR_EGL"

\* Lines 887-959: wait for the frame, begin it, take the begin time, locate
\* the views, enter the EGL scope. A failure returns (or aborts) on the spot.
FrameBegin(failed, shouldRender) ==
    /\ rt_pc = "idle"
    /\ iter < MaxFrames
    /\ iter' = iter + 1
    /\ LET f0 == [NoFrame EXCEPT
                    !.calls = CallsUpTo(failed),
                    !.failed = failed,
                    !.shouldRender = failed # "xrWaitFrame" /\ shouldRender,
                    !.predictedDisplayTime =
                        IF failed = "xrWaitFrame" THEN 0
                        ELSE DisplayTime(iter + 1)]
       IN  IF failed # "none"
             THEN /\ fr' = [f0 EXCEPT !.prResult = FailureResult(failed)]
                  /\ rt_pc' = IF FailureResult(failed) = "abort"
                                THEN "aborted" ELSE "idle"
                  /\ UNCHANGED egl
             ELSE /\ fr' = [f0 EXCEPT
                       !.envBlendMode = XR_ENVIRONMENT_BLEND_MODE_OPAQUE,
                       !.prResult = "EM_POLL_RENDER_RESULT_SHOULD_NOT_RENDER"]
                  /\ egl' = egl + 1
                  /\ rt_pc' = IF shouldRender THEN "inner" ELSE "end"
    /\ UNCHANGED <<ready, produced, pulled, released, sc_stopped, prev_sample,
                   nextUpMessage, blend_mode, sample, sentIds>>
    /\ UNCHANGED <<stamperVars, mainVars, sigVars, setupVars, chanVars, pipeVars>>

\* Lines 1028-1067: fill in the sub-images and fovs, then try_pull_sample;
\* with no new sample the function returns here.
InnerPull ==
    /\ rt_pc = "inner"
    /\ LET f1 == [fr EXCEPT
                    !.calls = Append(@, "em_stream_client_try_pull_sample")]
       IN  IF ready.id = 0
             THEN /\ fr' = [f1 EXCEPT !.prResult =
                       IF prev_sample.id # 0
                         THEN "EM_POLL_RENDER_RESULT_REUSED_SAMPLE"
                         ELSE "EM_POLL_RENDER_RESULT_NO_SAMPLE_AVAILABLE"]
                  /\ rt_pc' = "end"
                  /\ UNCHANGED <<ready, pulled, sample>>
             ELSE /\ fr' = f1
                  /\ sample' = [ready EXCEPT !.pulled_iter = iter]
                  /\ ready' = NoSample
                  /\ pulled' = pulled \cup {ready.id}
                  /\ rt_pc' = "draw"
    /\ UNCHANGED <<produced, released, sc_stopped, egl, prev_sample,
                   nextUpMessage, blend_mode, iter, sentIds>>
    /\ UNCHANGED <<stamperVars, mainVars, sigVars, setupVars, chanVars, pipeVars>>

\* Mutant: the acquired image is drawn to but never released.
inner_swapchain_calls_no_release(failed) ==
    CASE failed = "xrAcquireSwapchainImage" -> <<"xrAcquireSwapchainImage">>
      [] failed = "xrWaitSwapchainImage" ->
           <<"xrAcquireSwapchainImage", "xrWaitSwapchainImage">>
      [] failed = "none" ->
           <<"xrAcquireSwapchainImage", "xrWaitSwapchainImage", "draw">>

\* Lines 1079-1124: the swapchain calls of one draw. xrAcquireSwapchainImage
\* and xrWaitSwapchainImage abort the process when they fail (lines 1083 and
\* 1094); otherwise the renderer draws and the image is released.
inner_swapchain_calls(failed) ==
    CASE failed = "xrAcquireSwapchainImage" -> <<"xrAcquireSwapchainImage">>
      [] failed = "xrWaitSwapchainImage" ->
           <<"xrAcquireSwapchainImage", "xrWaitSwapchainImage">>
      [] failed = "none" ->
           <<"xrAcquireSwapchainImage", "xrWaitSwapchainImage", "draw",
             "xrReleaseSwapchainImage">>

\* em::Passthrough::set_blend_mode: the policy's blend mode becomes m.
set_blend_mode(m) == m

\* Mutant: the policy takes the mode of every new sample, UNSET included.
inner_blend_mode_always(mode, s) == set_blend_mode(s.env_blend_mode)

\* Lines 1070-1072: a new sample whose env_blend_mode is not 0 (UNSET) sets
\* the policy's blend mode; any other sample leaves it alone.
inner_blend_mode(mode, s) ==
    IF s.env_blend_mode # 0 THEN set_blend_mode(s.env_blend_mode) ELSE mode

\* Lines 1069-1074: the threshold handed to the draw is the sample's when its
\* blend mode is not 0, and DefaultBlackThreshold otherwise.
inner_black_threshold(s) ==
    IF s.env_blend_mode # 0 THEN s.additive_black_threshold
    ELSE DefaultBlackThreshold

\* Lines 1069-1124: take the sample's blend mode if it has one, copy its
\* poses into the projection views, acquire and wait for a swapchain image
\* (a failure aborts), draw the sample's texture, release the image.
InnerDraw(failed) ==
    /\ rt_pc = "draw"
    /\ blend_mode' = inner_blend_mode(blend_mode, sample)
    /\ LET done == inner_swapchain_calls(failed)
       IN  fr' = [fr EXCEPT !.projectionViews = sample.poses,
                            !.calls = @ \o done,
                            !.drawInfo =
                                IF failed = "none"
                                  THEN [blend_mode |-> blend_mode',
                                        black_threshold |->
                                            inner_black_threshold(sample)]
                                  ELSE @,
                            !.failed = failed,
                            !.prResult = IF failed = "none" THEN @ ELSE "abort"]
    /\ rt_pc' = IF failed = "none" THEN "adopt" ELSE "aborted"
    /\ UNCHANGED <<ready, produced, pulled, released, sc_stopped, egl,
                   prev_sample, nextUpMessage, iter, sample, sentIds>>
    /\ UNCHANGED <<stamperVars, mainVars, sigVars, setupVars, chanVars, pipeVars>>

\* Mutant: the previously held sample is not given back.
inner_release_prev_leak(rel, prev) == rel

\* Lines 1129-1131: give the previously held sample back, if there is one.
inner_release_prev(rel, prev) ==
    IF prev.id # 0 THEN em_stream_client_release_sample(rel, prev) ELSE rel

\* Lines 1129-1132: release the previously held sample and clear the field.
InnerRelease ==
    /\ rt_pc = "adopt"
    /\ released' = inner_release_prev(released, prev_sample)
    /\ prev_sample' = NoSample
    /\ fr' = [fr EXCEPT !.calls =
                IF prev_sample.id # 0
                  THEN Append(@, "em_stream_client_release_sample") ELSE @]
    /\ rt_pc' = "assign"
    /\ UNCHANGED <<ready, produced, pulled, sc_stopped, egl, nextUpMessage,
                   blend_mode, iter, sample, sentIds>>
    /\ UNCHANGED <<stamperVars, mainVars, sigVars, setupVars, chanVars, pipeVars>>

\* Mutant: the frame message is sent even when a time conversion failed.
report_frame_timing_despite_failure(msgs, convFailed, time, id, sendOk) ==
    Append(msgs, [kind |-> "frame", up_message_id |-> nextUpMessage,
                  frame_sequence_id |-> id,
                  display_time |-> time, sendOk |-> sendOk])

\* Lines 997-1017: report_frame_timing sends the frame message unless one of
\* the two time conversions fails.
report_frame_timing(msgs, convFailed, time, id, sendOk) ==
    IF convFailed # "none" THEN msgs
    ELSE em_remote_experience_emit_upmessage(msgs,
             [kind |-> "frame", up_message_id |-> 0,
              frame_sequence_id |-> id,
              display_time |-> time, sendOk |-> TRUE],
             sendOk)

\* Lines 1133-1138: the new sample becomes the held one, the frame report is
\* sent, the function returns NEW_SAMPLE.
InnerAdopt(convFailed, sendOk) ==
    /\ rt_pc = "assign"
    /\ prev_sample' = sample
    /\ sample' = NoSample
    /\ LET msgs == report_frame_timing(fr.msgs, convFailed,
                                       fr.predictedDisplayTime,
                                       sample.frame_sequence_id, sendOk)
       IN  /\ fr' = [fr EXCEPT !.msgs = msgs,
                               !.softFailed = IF convFailed = "none" THEN @
                                              ELSE @ \cup {convFailed},
                               !.prResult = "EM_POLL_RENDER_RESULT_NEW_SAMPLE"]
           /\ Emitted(fr.msgs, msgs, sendOk)
    /\ rt_pc' = "end"
    /\ UNCHANGED <<ready, produced, pulled, released, sc_stopped, egl,
                   blend_mode, iter>>
    /\ UNCHANGED <<stamperVars, mainVars, sigVars, setupVars, chanVars, pipeVars>>

\* Mutant: the projection layer goes first.
BuildLayers_projection_first(passthroughLayer, prResult) ==
    (IF em_poll_render_result_include_layer(prResult)
       THEN <<"projection">> ELSE <<>>)
    \o (IF passthroughLayer.comp_layer THEN <<"passthrough">> ELSE <<>>)

\* Lines 965-971: layers[0..layerCount): the passthrough layer if the policy
\* gave one, then the projection layer if the result calls for it.
BuildLayers(passthroughLayer, prResult) ==
    (IF passthroughLayer.comp_layer THEN <<"passthrough">> ELSE <<>>)
    \o (IF em_poll_render_result_include_layer(prResult)
          THEN <<"projection">> ELSE <<>>)

\* Mutant: the pose is reported only when a frame report was sent.
report_pose_only_with_frame(msgs, locateOk, sendOk) ==
    IF ~locateOk \/ msgs = <<>> THEN msgs
    ELSE Append(msgs, [kind |-> "tracking", up_message_id |-> nextUpMessage,
                       frame_sequence_id |-> 0, display_time |-> 0,
                       sendOk |-> sendOk])

\* Lines 642-680: report_pose sends a tracking message unless xrLocateSpace
\* fails.
em_remote_experience_report_pose(msgs, locateOk, sendOk) ==
    IF ~locateOk THEN msgs
    ELSE em_remote_experience_emit_upmessage(msgs,
             [kind |-> "tracking", up_message_id |-> 0,
              frame_sequence_id |-> 0, display_time |-> 0, sendOk |-> TRUE],
             sendOk)

\* Lines 963-987: ask the passthrough policy (only when rendering), build the
\* layer list, end the frame, leave the EGL scope, report the pose, return.
FrameEnd(insert, locateOk, sendOk) ==
    /\ rt_pc = "end"
    /\ LET passthroughLayer == composition_layer(insert)
           msgs == em_remote_experience_report_pose(fr.msgs, locateOk, sendOk)
           f1 == IF fr.shouldRender
                   THEN [fr EXCEPT
                           !.envBlendMode = passthroughLayer.env_blend_mode,
                           !.layers = BuildLayers(passthroughLayer, fr.prResult),
                           !.layerFlags =
                               IF em_poll_render_result_include_layer(fr.prResult)
                                 THEN passthroughLayer.projection_layer_flags
                                 ELSE @]
                   ELSE fr
       IN  /\ fr' = [f1 EXCEPT !.calls = @ \o <<"xrEndFrame",
                                   "em_stream_client_egl_end", "xrLocateSpace">>,
                               !.softFailed = IF locateOk THEN @
                                              ELSE @ \cup {"xrLocateSpace"},
                               !.msgs = msgs]
           /\ Emitted(fr.msgs, msgs, sendOk)
    /\ egl' = egl - 1
    /\ rt_pc' = "idle"
    /\ UNCHANGED <<ready, produced, pulled, released, sc_stopped, prev_sample,
                   blend_mode, iter, sample>>
    /\ UNCHANGED <<stamperVars, mainVars, sigVars, setupVars, chanVars, pipeVars>>

\* Lines 693-696: dispose gives the held sample back, if there is one.
dispose_release(rel, prev) ==
    IF prev.id # 0 THEN em_stream_client_release_sample(rel, prev) ELSE rel

\* Lines 866-881 with dispose (683-714): stop the stream client, reset the
\* renderer inside the EGL scope, release the held sample, drop the rest.
em_remote_experience_destroy ==
    /\ rt_pc = "idle"
    /\ sc_stopped' = TRUE
    /\ ready' = NoSample
    /\ released' = dispose_release(released, prev_sample)
    /\ prev_sample' = NoSample
    /\ fr' = [NoFrame EXCEPT !.calls =
                <<"em_stream_client_stop", "em_stream_client_egl_begin_pbuffer",
                  "renderer_reset", "em_stream_client_egl_end">>
                \o (IF prev_sample.id # 0
                      THEN <<"em_stream_client_release_sample">> ELSE <<>>)]
    /\ rt_pc' = "destroyed"
    /\ UNCHANGED <<produced, pulled, egl, nextUpMessage, blend_mode, iter,
                   sample, sentIds>>
    /\ UNCHANGED <<stamperVars, mainVars, sigVars, setupVars, chanVars, pipeVars>>

NextRender ==
    \/ \E hint \in SampleHints, meta \in BOOLEAN :
          ProduceSample(hint[1], meta, hint[2])
    \/ \E failed \in {"none"} \cup {FrameCalls[i] : i \in DOMAIN FrameCalls},
          shouldRender \in BOOLEAN : FrameBegin(failed, shouldRender)
    \/ InnerPull
    \/ \E failed \in {"none", "xrAcquireSwapchainImage", "xrWaitSwapchainImage"} :
          InnerDraw(failed)
    \/ InnerRelease
    \/ \E convFailed \in {"none", "decodeEnd", "beginFrame"},
          sendOk \in BOOLEAN : InnerAdopt(convFailed, sendOk)
    \/ \E insert \in BOOLEAN, locateOk \in BOOLEAN, sendOk \in BOOLEAN :
          FrameEnd(insert, locateOk, sendOk)
    \/ em_remote_experience_destroy

SpecRender == Init /\ [][NextRender]_vars

(***************************************************************************)
(* Claims about the render loop, checked under SpecRender.                 *)
(***************************************************************************)
\* How often a call appears in the log of the iteration.
Count(calls, c) == Len(SelectSeq(calls, LAMBDA x : x = c))

\* poll_and_render_frame has returned from at least one call.
IterationReturned == rt_pc = "idle" /\ iter > 0

\* C6: no sample is ever released twice, only pulled samples are released,
\* while a sample is held it has not been released and every sample pulled
\* before it has been, at the moment the new sample is about to become the
\* held one (line 1133) the previous one has been given back and only the
\* new one is checked out, and once destroy has run every sample
\* try_pull_sample returned has been released exactly once.
C6_EachSampleReleasedOnce ==
    /\ \A i \in 1..MaxSamples :
          /\ released[i] <= 1
          /\ released[i] = 1 => i \in pulled
    /\ prev_sample.id # 0 =>
          /\ prev_sample.id \in CheckedOut
          /\ \A i \in pulled \ {prev_sample.id, sample.id} : released[i] = 1
    /\ rt_pc = "assign" => prev_sample.id = 0 /\ CheckedOut = {sample.id}
    /\ rt_pc = "destroyed" =>
          /\ CheckedOut = {}
          /\ \A i \in pulled : released[i] = 1

\* C6 witness: three samples were pulled, each superseding the one before,
\* and after destroy each has been released once.
C6_Witness ==
    /\ rt_pc = "destroyed"
    /\ pulled = 1..3
    /\ \A i \in pulled : released[i] = 1

\* C6 witness of the adopting step: the previous sample is back with the
\* stream client and the new one is about to become the held one.
C6_WitnessAdopt ==
    /\ rt_pc = "assign"
    /\ sample.id = 2
    /\ released[1] = 1
    /\ prev_sample.id = 0

\* C7 (as claimed): never more than one sample pulled and not yet given back.
C7_AtMostOneCheckedOut == Cardinality(CheckedOut) <= 1

\* C8 (as claimed): an iteration whose xrWaitFrame succeeded with
\* shouldRender false made one xrBeginFrame and one xrEndFrame call, submitted
\* no layer with blend mode OPAQUE, pulled no sample and acquired no image.
C8_NoRenderFrame ==
    (IterationReturned /\ fr.failed # "xrWaitFrame" /\ ~fr.shouldRender) =>
        /\ Count(fr.calls, "xrBeginFrame") = 1
        /\ Count(fr.calls, "xrEndFrame") = 1
        /\ fr.layers = <<>>
        /\ fr.envBlendMode = XR_ENVIRONMENT_BLEND_MODE_OPAQUE
        /\ Count(fr.calls, "em_stream_client_try_pull_sample") = 0
        /\ Count(fr.calls, "xrAcquireSwapchainImage") = 0

\* C9 (as claimed): an iteration in which try_pull_sample returned none while
\* a sample was held returned REUSED_SAMPLE and submitted the projection
\* layer with the held sample's two poses in its views.
C9_ReusedSamplePoses ==
    (/\ IterationReturned
     /\ Count(fr.calls, "em_stream_client_try_pull_sample") = 1
     /\ Count(fr.calls, "xrAcquireSwapchainImage") = 0
     /\ prev_sample.id # 0) =>
        /\ fr.prResult = "EM_POLL_RENDER_RESULT_REUSED_SAMPLE"
        /\ Count(fr.layers, "projection") = 1
        /\ fr.projectionViews = prev_sample.poses

\* C10: an iteration that reached xrEndFrame submitted at most two layers:
\* the projection layer once if the result was NEW_SAMPLE or REUSED_SAMPLE and
\* not at all otherwise, and the passthrough layer, if any, before it.
C10_LayerList ==
    (IterationReturned /\ Count(fr.calls, "xrEndFrame") = 1) =>
        /\ Len(fr.layers) <= 2
        /\ Count(fr.layers, "projection") =
              (IF fr.prResult \in {"EM_POLL_RENDER_RESULT_NEW_SAMPLE",
                                   "EM_POLL_RENDER_RESULT_REUSED_SAMPLE"}
                 THEN 1 ELSE 0)
        /\ ~fr.shouldRender =>
              /\ fr.prResult = "EM_POLL_RENDER_RESULT_SHOULD_NOT_RENDER"
              /\ fr.layers = <<>>
        /\ Count(fr.layers, "passthrough") <= 1
        /\ \A i, j \in DOMAIN fr.layers :
              (fr.layers[i] = "passthrough" /\ fr.layers[j] = "projection")
                 => i < j

\* C10 witness: a frame that reused the held sample went out with the
\* passthrough layer under the projection layer.
C10_Witness ==
    /\ IterationReturned
    /\ fr.prResult = "EM_POLL_RENDER_RESULT_REUSED_SAMPLE"
    /\ fr.layers = <<"passthrough", "projection">>

\* C10 witness without a sample: only the passthrough layer is submitted.
C10_WitnessNoSample ==
    /\ IterationReturned
    /\ fr.prResult = "EM_POLL_RENDER_RESULT_NO_SAMPLE_AVAILABLE"
    /\ fr.layers = <<"passthrough">>

\* The messages of one kind among those an iteration sent.
OfKind(msgs, kind) == SelectSeq(msgs, LAMBDA m : m.kind = kind)

\* The time conversions of report_frame_timing.
Conversions == {"decodeEnd", "beginFrame"}

\* C11: an iteration that reached xrEndFrame sent one tracking message if
\* xrLocateSpace succeeded and none otherwise, whatever its result; an
\* iteration sent one frame message if its result is NEW_SAMPLE and both time
\* conversions succeeded and none otherwise, and that message carries the
\* frame_sequence_id of the sample adopted in the iteration and the
\* iteration's predictedDisplayTime as display_time.
C11_ReportsPerIteration ==
    IterationReturned =>
        /\ Count(fr.calls, "xrEndFrame") = 1 =>
              Len(OfKind(fr.msgs, "tracking")) =
                 (IF "xrLocateSpace" \in fr.softFailed THEN 0 ELSE 1)
        /\ Count(fr.calls, "xrEndFrame") = 0 => fr.msgs = <<>>
        /\ Len(OfKind(fr.msgs, "frame")) =
              (IF /\ fr.prResult = "EM_POLL_RENDER_RESULT_NEW_SAMPLE"
                  /\ fr.softFailed \cap Conversions = {}
                 THEN 1 ELSE 0)
        /\ \A k \in DOMAIN fr.msgs :
              fr.msgs[k].kind = "frame" =>
                 /\ fr.msgs[k].frame_sequence_id = prev_sample.frame_sequence_id
                 /\ fr.msgs[k].display_time = fr.predictedDisplayTime

\* C11 witness: the second iteration adopted sample 2 and sent its frame
\* report and the pose report.
C11_Witness ==
    /\ IterationReturned
    /\ iter = 2
    /\ fr.prResult = "EM_POLL_RENDER_RESULT_NEW_SAMPLE"
    /\ prev_sample.id = 2
    /\ Len(OfKind(fr.msgs, "tracking")) = 1
    /\ \E k \in DOMAIN fr.msgs :
          /\ fr.msgs[k].kind = "frame"
          /\ fr.msgs[k].frame_sequence_id = 2
          /\ fr.msgs[k].display_time = 1002

\* C11 witness of a frame that reused the held sample: the pose report alone.
C11_WitnessReused ==
    /\ IterationReturned
    /\ fr.prResult = "EM_POLL_RENDER_RESULT_REUSED_SAMPLE"
    /\ Len(fr.msgs) = 1
    /\ fr.msgs[1].kind = "tracking"

\* C12 (as claimed): nothing is sent before xrEndFrame, and in an iteration
\* the tracking message is sent before the frame message, with the smaller
\* up_message_id.
C12_TrackingBeforeFrame ==
    /\ rt_pc = "end" => fr.msgs = <<>>
    /\ \A i, j \in DOMAIN fr.msgs :
          (fr.msgs[i].kind = "tracking" /\ fr.msgs[j].kind = "frame") =>
             /\ i < j
             /\ fr.msgs[i].up_message_id < fr.msgs[j].up_message_id

ErrorResults == {"EM_POLL_RENDER_RESULT_ERROR_WAITFRAME",
                 "EM_POLL_RENDER_RESULT_ERROR_EGL"}

\* C14 (as claimed): an iteration whose xrWaitFrame or xrLocateViews failed
\* returned an error result, pulled no sample, acquired no image, released
\* nothing and sent nothing.
C14_WaitOrLocateFailure ==
    (IterationReturned /\ fr.failed \in {"xrWaitFrame", "xrLocateViews"}) =>
        /\ fr.prResult \in ErrorResults
        /\ Count(fr.calls, "em_stream_client_try_pull_sample") = 0
        /\ Count(fr.calls, "xrAcquireSwapchainImage") = 0
        /\ Count(fr.calls, "em_stream_client_release_sample") = 0
        /\ fr.msgs = <<>>

\* C15: from the moment a time conversion has failed in an iteration, that
\* iteration has no frame message and no id was taken for one, the new sample
\* is the held one and the only one checked out (the previous one was given
\* back), the result is NEW_SAMPLE and the stream client still runs.
C15_ConversionFailure ==
    (fr.softFailed \cap Conversions # {}) =>
        /\ rt_pc \in {"end", "idle"}
        /\ OfKind(fr.msgs, "frame") = <<>>
        /\ rt_pc = "end" => fr.msgs = <<>>
        /\ Len(fr.msgs) <= 1
        /\ nextUpMessage = Len(sentIds) + 1
        /\ \A k \in DOMAIN fr.msgs : fr.msgs[k].up_message_id = Len(sentIds)
        /\ fr.prResult = "EM_POLL_RENDER_RESULT_NEW_SAMPLE"
        /\ prev_sample.id # 0
        /\ CheckedOut = {prev_sample.id}
        /\ ~sc_stopped

\* C15 witness: the begin-frame time failed to convert in the iteration that
\* adopted sample 2; sample 1 is back with the stream client and the pose
\* report took the next id after those of the first iteration.
C15_Witness ==
    /\ IterationReturned
    /\ "beginFrame" \in fr.softFailed
    /\ prev_sample.id = 2
    /\ released[1] = 1
    /\ Len(fr.msgs) = 1
    /\ fr.msgs[1].kind = "tracking"
    /\ fr.msgs[1].up_message_id = 3

(***************************************************************************)
(* The main thread: android_main's loop, poll_events and onAppCmd.         *)
(***************************************************************************)
\* Line 514: the loop goes on until the glue has set app->destroyRequested;
\* after the loop come lines 520-529.
MainLoopHead ==
    /\ ml_pc = "head"
    /\ ml_pc' = IF destroyRequested THEN "cleanup" ELSE "android"
    /\ UNCHANGED <<window, activityState, destroyRequested, lastCmd, connected,
                   conn, renders, sessionState, lastEvent>>
    /\ UNCHANGED <<stamperVars, renderVars, sigVars, setupVars, chanVars, pipeVars>>

\* Line 119: whether ALooper_pollAll is to block.
ShouldWait(w, a) == ~w \/ a # "APP_CMD_RESUME"

\* Lines 89 and 96: the commands whose case disconnects.
onAppCmd_disconnects(cmd) == cmd \in {"APP_CMD_STOP", "APP_CMD_TERM_WINDOW"}

\* What source->process (android_native_app_glue) does to struct android_app
\* around the call of onAppCmd.
ActivityStateAfter(cmd) ==
    IF cmd \in {"APP_CMD_START", "APP_CMD_RESUME", "APP_CMD_PAUSE",
                "APP_CMD_STOP"}
      THEN cmd ELSE activityState

WindowAfter(cmd) ==
    CASE cmd = "APP_CMD_INIT_WINDOW" -> TRUE
      [] cmd = "APP_CMD_TERM_WINDOW" -> FALSE
      [] OTHER -> window

\* Lines 82-102: onAppCmd. STOP and TERM_WINDOW disconnect the connection
\* and clear state.connected; the other cases only log.
onAppCmd(cmd) ==
    /\ IF onAppCmd_disconnects(cmd)
         THEN /\ conn' = "disconnected"
              /\ connected' = FALSE
         ELSE UNCHANGED <<conn, connected>>
    /\ lastCmd' = [cmd |-> cmd, disconnect |-> onAppCmd_disconnects(cmd),
                   flagBefore |-> connected, flagAfter |-> connected']

\* Lines 116-132, one pass of the for loop: ALooper_pollAll blocks unless the
\* app is resumed with a window; a command is processed, and the loop is left
\* when the poll returned a negative value (cmd "none") or when a command
\* polled without blocking left the app without window or not resumed.
PollAndroid(cmd) ==
    /\ ml_pc = "android"
    /\ IF cmd = "none"
         THEN /\ ml_pc' = "xr"
              /\ UNCHANGED <<window, activityState, destroyRequested, lastCmd,
                             connected, conn>>
         ELSE /\ window' = WindowAfter(cmd)
              /\ activityState' = ActivityStateAfter(cmd)
              /\ destroyRequested' =
                    (destroyRequested \/ cmd = "APP_CMD_DESTROY")
              /\ onAppCmd(cmd)
              /\ ml_pc' = IF /\ ~ShouldWait(window, activityState)
                             /\ ShouldWait(window', activityState')
                            THEN "xr" ELSE "android"
    /\ UNCHANGED <<renders, sessionState, lastEvent>>
    /\ UNCHANGED <<stamperVars, renderVars, sigVars, setupVars, chanVars, pipeVars>>

\* Lines 187-193: the connection's "connected" signal sets state.connected.
connected_cb ==
    /\ conn = "connecting"
    /\ conn' = "connected"
    /\ connected' = TRUE
    /\ UNCHANGED <<ml_pc, window, activityState, destroyRequested, lastCmd,
                   renders, sessionState, lastEvent>>
    /\ UNCHANGED <<stamperVars, renderVars, sigVars, setupVars, chanVars, pipeVars>>

\* Mutant: the session is begun on IDLE as well.
begins_session_on_idle(st) ==
    st \in {XR_SESSION_STATE_IDLE, XR_SESSION_STATE_READY}

\* Line 146: the case that calls xrBeginSession.
begins_session(st) == st = XR_SESSION_STATE_READY

\* Line 161: the case that calls xrEndSession.
ends_session(st) == st = XR_SESSION_STATE_STOPPING

\* Lines 140-174, one pass of the while loop: xrPollEvent returned an event.
\* A session-state-changed event runs its case and is recorded in
\* state.sessionState; any other event is dropped.
XrEvent(stateChanged, st) ==
    /\ ml_pc = "xr"
    /\ IF stateChanged
         THEN /\ sessionState' = st
              /\ lastEvent' =
                    [state |-> st,
                     xrBeginSession |-> IF begins_session(st) THEN 1 ELSE 0,
                     xrEndSession |-> IF ends_session(st) THEN 1 ELSE 0]
         ELSE UNCHANGED <<sessionState, lastEvent>>
    /\ UNCHANGED <<ml_pc, window, activityState, destroyRequested, lastCmd,
                   connected, conn, renders>>
    /\ UNCHANGED <<stamperVars, renderVars, sigVars, setupVars, chanVars, pipeVars>>

\* Mutant: only the zero state counts as not ready.
session_not_ready_below_idle(st) == st < XR_SESSION_STATE_IDLE

\* Line 177.
session_not_ready(st) == st < XR_SESSION_STATE_READY

\* Lines 140 and 176-184: xrPollEvent has no more events; poll_events
\* returns false below READY and true otherwise, and the loop body (lines
\* 515-517) goes back to the head or on to the render call.
XrPollDone ==
    /\ ml_pc = "xr"
    /\ ml_pc' = IF session_not_ready(sessionState) THEN "head" ELSE "render"
    /\ UNCHANGED <<window, activityState, destroyRequested, lastCmd, connected,
                   conn, renders, sessionState, lastEvent>>
    /\ UNCHANGED <<stamperVars, renderVars, sigVars, setupVars, chanVars, pipeVars>>

\* Line 516: the call of em_remote_experience_poll_and_render_frame.
MainRenderCall ==
    /\ ml_pc = "render"
    /\ renders < MaxRenders
    /\ ml_pc' = "in_render"
    /\ renders' = renders + 1
    /\ UNCHANGED <<window, activityState, destroyRequested, lastCmd, connected,
                   conn, sessionState, lastEvent>>
    /\ UNCHANGED <<stamperVars, renderVars, sigVars, setupVars, chanVars, pipeVars>>

\* Line 516: the call has returned; back to the loop head.
MainRenderReturn ==
    /\ ml_pc = "in_render"
    /\ rt_pc = "idle"
    /\ iter = renders
    /\ ml_pc' = "head"
    /\ UNCHANGED <<window, activityState, destroyRequested, lastCmd, connected,
                   conn, renders, sessionState, lastEvent>>
    /\ UNCHANGED <<stamperVars, renderVars, sigVars, setupVars, chanVars, pipeVars>>

\* The render thread is the main thread: an iteration starts only inside the
\* call of line 516, and destroy runs only after the loop (line 529).
MainFrameBegin(failed, shouldRender) ==
    /\ ml_pc = "in_render"
    /\ iter < renders
    /\ FrameBegin(failed, shouldRender)

MainDestroy ==
    /\ ml_pc = "cleanup"
    /\ em_remote_experience_destroy

NextMain ==
    \/ MainLoopHead
    \/ \E cmd \in AppCmds \cup {"none"} : PollAndroid(cmd)
    \/ connected_cb
    \/ \E stateChanged \in BOOLEAN, st \in SessionStates :
          XrEvent(stateChanged, st)
    \/ XrPollDone
    \/ MainRenderCall
    \/ \E failed \in {"none"} \cup {FrameCalls[i] : i \in DOMAIN FrameCalls},
          shouldRender \in BOOLEAN : MainFrameBegin(failed, shouldRender)
    \/ InnerPull
    \/ \E insert \in BOOLEAN, locateOk \in BOOLEAN, sendOk \in BOOLEAN :
          FrameEnd(insert, locateOk, sendOk)
    \/ MainRenderReturn
    \/ MainDestroy

SpecMain == Init /\ [][NextMain]_vars

(***************************************************************************)
(* Claims about the main loop (all under SpecMain).                        *)
(***************************************************************************)
Rendering == ml_pc = "in_render"

\* C16: handling a session-state-changed event calls xrBeginSession once
\* exactly when the event's state is READY and xrEndSession once exactly
\* when it is STOPPING, and no other event calls either; the recorded
\* session state is the state of the most recent event.
C16_SessionCalls ==
    /\ lastEvent.xrBeginSession =
          (IF lastEvent.state = XR_SESSION_STATE_READY THEN 1 ELSE 0)
    /\ lastEvent.xrEndSession =
          (IF lastEvent.state = XR_SESSION_STATE_STOPPING THEN 1 ELSE 0)
    /\ sessionState = lastEvent.state

C16_Witness ==
    /\ lastEvent.state = XR_SESSION_STATE_STOPPING
    /\ lastEvent.xrEndSession = 1
    /\ renders > 0

C16_WitnessReady ==
    /\ lastEvent.state = XR_SESSION_STATE_READY
    /\ lastEvent.xrBeginSession = 1

\* C17: once the recorded session state is LOSS_PENDING or EXITING, no
\* iteration of poll_and_render_frame runs.
C17_NoRenderAfterLoss ==
    sessionState \in {XR_SESSION_STATE_LOSS_PENDING, XR_SESSION_STATE_EXITING}
        => ~Rendering

\* C18: poll_and_render_frame is called, and an iteration is under way, only
\* while the recorded session state is READY or above.
C18_RenderOnlyWhenReady ==
    /\ ml_pc \in {"render", "in_render"}
          => sessionState >= XR_SESSION_STATE_READY
    /\ rt_pc \notin {"idle", "aborted", "destroyed"}
          => Rendering /\ sessionState >= XR_SESSION_STATE_READY

C18_Witness ==
    /\ Rendering
    /\ rt_pc # "idle"
    /\ \E i \in DOMAIN fr.calls : fr.calls[i] = "xrBeginFrame"

C18_WitnessBelowReady ==
    /\ ml_pc = "head"
    /\ lastEvent.state = XR_SESSION_STATE_IDLE
    /\ renders = 0

\* C19: the handler of APP_CMD_STOP and of APP_CMD_TERM_WINDOW disconnects
\* and leaves the connected flag false, no other handler disconnects, and no
\* render iteration runs after such a command.
C19_LifecycleDisconnect ==
    /\ lastCmd.cmd \in {"APP_CMD_STOP", "APP_CMD_TERM_WINDOW"}
          => lastCmd.disconnect /\ ~lastCmd.flagAfter
    /\ lastCmd.cmd \notin {"APP_CMD_STOP", "APP_CMD_TERM_WINDOW"}
          => ~lastCmd.disconnect
    /\ lastCmd.cmd \in {"APP_CMD_STOP", "APP_CMD_TERM_WINDOW"} => ~Rendering

\* C20: after APP_CMD_RESUME the connection is not left disconnected, and
\* the connected flag is true only while the connection is connected.
C20_ReconnectOnResume ==
    /\ lastCmd.cmd = "APP_CMD_RESUME" => conn # "disconnected"
    /\ connected => conn = "connected"

(***************************************************************************)
(* Progress of the main thread.                                            *)
(***************************************************************************)
\* Line 121 with timeout 0: ALooper_pollAll returns at once when no command
\* is pending. With timeout -1 it returns only when the host delivers one.
PollAndroidNoWait ==
    /\ ~ShouldWait(window, activityState)
    /\ PollAndroid("none")

\* The main thread keeps running: every step of lines 514-529 that does not
\* wait for the host is eventually taken.
MainThreadRuns ==
    /\ WF_vars(MainLoopHead)
    /\ WF_vars(PollAndroidNoWait)
    /\ WF_vars(XrPollDone)
    /\ WF_vars(MainRenderCall)
    /\ WF_vars(\E failed \in {"none"} \cup
                   {FrameCalls[i] : i \in DOMAIN FrameCalls},
                  shouldRender \in BOOLEAN :
                      MainFrameBegin(failed, shouldRender))
    /\ WF_vars(InnerPull)
    /\ WF_vars(\E insert \in BOOLEAN, locateOk \in BOOLEAN,
                  sendOk \in BOOLEAN : FrameEnd(insert, locateOk, sendOk))
    /\ WF_vars(MainRenderReturn)
    /\ WF_vars(MainDestroy)

SpecMainLive == Init /\ [][NextMain]_vars /\ MainThreadRuns

\* C21: once destroyRequested is set the main loop ends and the cleanup of
\* lines 520-531 runs, whatever the window and the activity state are (the
\* process may instead have aborted in xrBeginFrame).
C21_DestroyTerminates ==
    (destroyRequested /\ renders < MaxRenders)
        ~> (rt_pc \in {"destroyed", "aborted"})

(***************************************************************************)
(* The server's per-client peers: the signaling handlers, the completion   *)
(* of the offer, and the streaming thread pushing buffers out of the tee.  *)
(***************************************************************************)
\* Mutant: any element of the pipeline will do.
get_webrtcbin_of_any_client(p, c) ==
    IF \E d \in Clients \ {c} : p[d].inBin
      THEN CHOOSE d \in Clients \ {c} : p[d].inBin
      ELSE IF p[c].inBin THEN c ELSE 0

\* Lines 116-127: the element named webrtcbin_<client_id> in the pipeline,
\* 0 when there is none.
get_webrtcbin_for_client(p, c) == IF p[c].inBin THEN c ELSE 0

\* Lines 338-384: the calls webrtc_client_connected_cb makes on the new
\* element, in order.
client_connected_steps ==
    <<"gst_bin_add", "set_state READY", "create-data-channel",
      "connect data channel handlers", "set_state PLAYING",
      "add-transceiver", "create-offer">>

\* Lines 328-397 for the peer: the element is made, added, brought to
\* PLAYING and asked for an offer. A client id connects once.
PeerConnected(c) ==
    /\ ~peer[c].made
    /\ peer' = [peer EXCEPT ![c] =
                  [NoPeer EXCEPT !.made = TRUE, !.inBin = TRUE,
                                 !.state = "PLAYING",
                                 !.log = client_connected_steps]]
    /\ UNCHANGED <<nsig, sig, inbox, tracking>>
    /\ UNCHANGED <<stamperVars, renderVars, mainVars, setupVars, chanVars, pipeVars>>

\* Mutant: the element is linked to the tee first.
on_offer_created_link_first ==
    <<"connect_webrtc_to_tee", "set-local-description",
      "ems_signaling_server_send_sdp_offer">>

\* Lines 161-172: the calls of on_offer_created, in order.
on_offer_created_steps ==
    <<"set-local-description", "ems_signaling_server_send_sdp_offer",
      "connect_webrtc_to_tee">>

\* One call of on_offer_created (it runs on the thread that replies to the
\* promise, and the signaling handlers may run between its calls). Lines
\* 129-153: connect_webrtc_to_tee requests sink_0 and links it to a new tee
\* pad, unless the element has no parent.
OfferStep(c) ==
    /\ peer[c].made
    /\ peer[c].offer < Len(on_offer_created_steps)
    /\ LET step == on_offer_created_steps[peer[c].offer + 1]
           p1 == [peer[c] EXCEPT !.offer = @ + 1, !.log = Append(@, step)]
       IN  peer' = [peer EXCEPT ![c] =
              CASE step = "ems_signaling_server_send_sdp_offer" ->
                     [p1 EXCEPT !.offerTo = c]
                [] step = "connect_webrtc_to_tee" ->
                     IF peer[c].inBin
                       THEN [p1 EXCEPT !.sink0 = TRUE, !.linked = TRUE]
                       ELSE p1
                [] OTHER -> p1]
    /\ UNCHANGED <<nsig, sig, inbox, tracking>>
    /\ UNCHANGED <<stamperVars, renderVars, mainVars, setupVars, chanVars, pipeVars>>

\* Lines 399-437: webrtc_sdp_answer_cb. The description is applied to the
\* element found for client_id, and gst_promise_wait returns when the element
\* has replied; a parse failure or a missing element leaves at the label out.
webrtc_sdp_answer_cb(c, parseOk) ==
    /\ nsig < MaxSigEvents
    /\ nsig' = nsig + 1
    /\ sig' = [kind |-> "sdp-answer", client |-> c, ok |-> parseOk]
    /\ LET webrtcbin == get_webrtcbin_for_client(peer, c)
       IN  IF parseOk /\ webrtcbin # 0
             THEN peer' = [peer EXCEPT ![webrtcbin].remote = @ + 1]
             ELSE UNCHANGED peer
    /\ UNCHANGED <<inbox, tracking>>
    /\ UNCHANGED <<stamperVars, renderVars, mainVars, setupVars, chanVars, pipeVars>>

\* Mutant: the length of the candidate is not looked at.
candidate_given_always(len) == TRUE

\* Line 448: strlen(candidate).
candidate_given(len) == len # 0

\* Lines 439-459: webrtc_candidate_cb.
webrtc_candidate_cb(c, len) ==
    /\ nsig < MaxSigEvents
    /\ nsig' = nsig + 1
    /\ sig' = [kind |-> "candidate", client |-> c, ok |-> len # 0]
    /\ LET webrtcbin == IF candidate_given(len)
                          THEN get_webrtcbin_for_client(peer, c) ELSE 0
       IN  IF webrtcbin # 0
             THEN peer' = [peer EXCEPT ![webrtcbin].cands = @ + 1]
             ELSE UNCHANGED peer
    /\ UNCHANGED <<inbox, tracking>>
    /\ UNCHANGED <<stamperVars, renderVars, mainVars, setupVars, chanVars, pipeVars>>

\* Lines 472-491: webrtc_client_disconnected_cb. The blocking probe is added
\* only when the element is found and has a pad sink_0. The signaling server
\* reports the end of a connection once.
PeerDisconnected(c) ==
    /\ peer[c].made
    /\ ~peer[c].disconnected
    /\ LET webrtcbin == get_webrtcbin_for_client(peer, c)
       IN  peer' = [peer EXCEPT ![c] =
              [@ EXCEPT !.disconnected = TRUE,
                        !.probe = webrtcbin # 0 /\ peer[webrtcbin].sink0]]
    /\ UNCHANGED <<nsig, sig, inbox, tracking>>
    /\ UNCHANGED <<stamperVars, renderVars, mainVars, setupVars, chanVars, pipeVars>>

\* Mutant: gst_bin_remove leaves the pads of the element linked.
gst_bin_remove_keeps_link(linked) == linked

\* Line 466: gst_bin_remove unlinks the pads of the element it removes.
gst_bin_remove(linked) == FALSE

\* The streaming thread pushes a buffer on the tee pad linked to the peer of
\* c. A blocking probe on the pad runs remove_webrtcbin_probe_cb (lines
\* 461-470) with the pad blocked and is removed by its return value; the
\* buffer then goes on to the pad's peer, if it still has one.
TeePush(c) ==
    /\ peer[c].linked
    /\ LET p1 == IF peer[c].probe
                   THEN [peer[c] EXCEPT !.inBin = FALSE,
                                        !.linked = gst_bin_remove(@),
                                        !.state = "NULL",
                                        !.removals = @ + 1,
                                        !.probe = FALSE]
                   ELSE peer[c]
       IN  peer' = [peer EXCEPT ![c] =
              IF p1.linked
                THEN [p1 EXCEPT !.fed = TRUE,
                                !.fedRemoved = @ \/ p1.removals > 0]
                ELSE p1]
    /\ UNCHANGED <<nsig, sig, inbox, tracking>>
    /\ UNCHANGED <<stamperVars, renderVars, mainVars, setupVars, chanVars, pipeVars>>

\* Mutant: a message that fails to decode is dispatched all the same.
pb_decode_ex_ignored(decodes) == TRUE

\* Lines 234-239: the result of pb_decode_ex.
pb_decode_ex(decodes) == decodes

\* Lines 226-248: data_channel_message_data_cb for a binary message,
\* data_channel_message_string_cb for a string. The channel exists once a
\* client has connected (line 352).
DataChannelMessage(kind, decodes) ==
    /\ \E c \in Clients : peer[c].made
    /\ Len(inbox) < MaxUpMsgs
    /\ inbox' = Append(inbox, [id |-> Len(inbox) + 1, kind |-> kind,
                               decodes |-> decodes])
    /\ tracking' = IF kind = "binary" /\ pb_decode_ex(decodes)
                     THEN Append(tracking, Len(inbox) + 1)
                     ELSE tracking
    /\ UNCHANGED <<peer, nsig, sig>>
    /\ UNCHANGED <<stamperVars, renderVars, mainVars, setupVars, chanVars, pipeVars>>

NextSignaling ==
    \/ \E c \in Clients : PeerConnected(c)
    \/ \E c \in Clients : OfferStep(c)
    \/ \E c \in Clients, parseOk \in BOOLEAN : webrtc_sdp_answer_cb(c, parseOk)
    \/ \E c \in Clients, len \in {0, 1} : webrtc_candidate_cb(c, len)
    \/ \E c \in Clients : PeerDisconnected(c)
    \/ \E c \in Clients : TeePush(c)
    \/ \E decodes \in BOOLEAN : DataChannelMessage("binary", decodes)
    \/ DataChannelMessage("string", FALSE)

SpecSignaling == Init /\ [][NextSignaling]_vars

(***************************************************************************)
(* Claims about the peers and the data channel.                            *)
(***************************************************************************)
IsPrefix(a, b) == Len(a) <= Len(b) /\ a = SubSeq(b, 1, Len(a))

\* C22: the calls made on a client's element are, in this order: add to the
\* pipeline, READY, create the data channel, wire its handlers, PLAYING, add
\* the transceiver, create-offer, and after the offer: set-local-description,
\* send the offer to that client, link to the tee. The element is not linked
\* before its offer was sent.
C22_PeerSetupOrder ==
    \A c \in Clients : peer[c].made =>
        /\ IsPrefix(peer[c].log,
                    <<"gst_bin_add", "set_state READY", "create-data-channel",
                      "connect data channel handlers", "set_state PLAYING",
                      "add-transceiver", "create-offer",
                      "set-local-description",
                      "ems_signaling_server_send_sdp_offer",
                      "connect_webrtc_to_tee">>)
        /\ Len(peer[c].log) >= 7
        /\ peer[c].offerTo \in {0, c}
        /\ (peer[c].linked \/ peer[c].sink0) => peer[c].offerTo = c

C22_Witness ==
    \E c \in Clients :
        /\ Len(peer[c].log) = 10
        /\ peer[c].linked
        /\ peer[c].offerTo = c

\* C23: an sdp-answer event applies set-remote-description to the element
\* of its client id and to no other; when the text does not parse or the
\* client has no element in the pipeline, no element changes (so that a
\* later client-disconnected acts on it as before).
C23_SdpAnswer ==
    [][(nsig' = nsig + 1 /\ sig'.kind = "sdp-answer") =>
          peer' = IF sig'.ok /\ peer[sig'.client].inBin
                    THEN [peer EXCEPT ![sig'.client].remote = @ + 1]
                    ELSE peer]_vars

C23_Witness ==
    /\ sig.kind = "sdp-answer"
    /\ ~sig.ok
    /\ peer[sig.client].remote = 0
    /\ peer[sig.client].removals = 1

C23_WitnessApplied ==
    /\ sig.kind = "sdp-answer"
    /\ sig.ok
    /\ peer[sig.client].remote = 1

\* C24: a candidate event adds the candidate to the element of its client
\* id exactly when the string is not empty and that element is in the
\* pipeline; otherwise no element changes.
C24_Candidate ==
    [][(nsig' = nsig + 1 /\ sig'.kind = "candidate") =>
          peer' = IF sig'.ok /\ peer[sig'.client].inBin
                    THEN [peer EXCEPT ![sig'.client].cands = @ + 1]
                    ELSE peer]_vars

C24_Witness ==
    /\ sig.kind = "candidate"
    /\ sig.ok
    /\ peer[sig.client].cands > 0
    /\ \E d \in Clients \ {sig.client} : peer[d].inBin /\ peer[d].cands = 0

C24_WitnessEmpty ==
    /\ sig.kind = "candidate"
    /\ ~sig.ok
    /\ peer[sig.client].inBin
    /\ peer[sig.client].cands = 0

\* C25: an element leaves the pipeline only through the blocking probe set
\* by its client's disconnect, at most once, it is then in NULL state, and
\* no buffer reaches it afterwards.
C25_BlockBeforeRemove ==
    /\ [](\A c \in Clients :
            /\ peer[c].removals <= 1
            /\ ~peer[c].fedRemoved
            /\ (peer[c].made /\ ~peer[c].inBin) =>
                  /\ peer[c].removals = 1
                  /\ peer[c].disconnected
                  /\ peer[c].state = "NULL"
                  /\ ~peer[c].linked)
    /\ [][\A c \in Clients :
            (peer[c].inBin /\ ~peer'[c].inBin) =>
                peer[c].probe /\ peer[c].linked]_vars

C25_Witness ==
    \E c \in Clients :
        /\ peer[c].removals = 1
        /\ peer[c].fed
        /\ \E d \in Clients \ {c} : peer[d].linked /\ peer[d].fed

\* C27: the tracking callback has been called once for each binary message
\* that decoded, in order of arrival, and for no other message.
C27_UpMessageDispatch ==
    LET good == SelectSeq(inbox, LAMBDA m : m.kind = "binary" /\ m.decodes)
    IN  /\ Len(tracking) = Len(good)
        /\ \A i \in DOMAIN tracking : tracking[i] = good[i].id

C27_Witness ==
    /\ Len(inbox) = 2
    /\ inbox[1].kind = "binary" /\ ~inbox[1].decodes
    /\ tracking = <<2>>

C27_WitnessString ==
    /\ Len(inbox) = 2
    /\ inbox[1].kind = "string"
    /\ tracking = <<2>>

(***************************************************************************)
(* Progress of the server's threads.                                       *)
(***************************************************************************)
\* Buffers keep flowing out of the tee, and webrtcbin replies to every
\* create-offer promise.
ServerThreadsRun ==
    \A c \in Clients : WF_vars(TeePush(c)) /\ WF_vars(OfferStep(c))

SpecSignalingLive == Init /\ [][NextSignaling]_vars /\ ServerThreadsRun

\* C26: after a client's disconnect its element is eventually out of the
\* pipeline and in NULL state.
C26_PeerEventuallyDestroyed ==
    \A c \in Clients :
        peer[c].disconnected ~> (~peer[c].inBin /\ peer[c].state = "NULL")

(***************************************************************************)
(* android_main before the main loop: read_websocket_uri_property and the  *)
(* creation of the connection.                                             *)
(***************************************************************************)
\* The values the platform property may have.
PropertyValues == {"unset", "", "ws://host"}

\* Lines 216-219: __system_property_find; when the property exists the read
\* callback is asked for, otherwise "" is returned (lines 235-239).
UriFind(p) ==
    /\ su_pc = "find"
    /\ prop' = p
    /\ IF p = "unset"
         THEN /\ su_pc' = "uri_returned"
              /\ UNCHANGED cb_pending
         ELSE /\ su_pc' = "loop"
              /\ cb_pending' = TRUE
    /\ UNCHANGED <<now, wait_duration_ms, property_received, property_result,
                   deliveredAt, websocket_uri_property, connection_uri, nx>>
    /\ UNCHANGED <<stamperVars, renderVars, mainVars, sigVars, chanVars, pipeVars>>

\* Lines 202-210: property_read_cb, under property_read_mutex.
property_read_cb ==
    /\ cb_pending
    /\ cb_pending' = FALSE
    /\ property_result' = prop
    /\ property_received' = TRUE
    /\ deliveredAt' = now
    /\ UNCHANGED <<su_pc, prop, now, wait_duration_ms, websocket_uri_property,
                   connection_uri, nx>>
    /\ UNCHANGED <<stamperVars, renderVars, mainVars, sigVars, chanVars, pipeVars>>

\* std::chrono::steady_clock moves on while the loop runs.
Tick ==
    /\ su_pc = "loop"
    /\ now <= timeout_ms
    /\ now' = now + TimeStep
    /\ UNCHANGED <<su_pc, prop, cb_pending, wait_duration_ms,
                   property_received, property_result, deliveredAt,
                   websocket_uri_property, connection_uri, nx>>
    /\ UNCHANGED <<stamperVars, renderVars, mainVars, sigVars, chanVars, pipeVars>>

\* Mutant: the loop has no budget.
budget_left_always(waited, budget) == TRUE

\* Line 225: the loop condition.
budget_left(waited, budget) == waited < budget

\* Lines 225-234, one pass of the loop body and the test that follows it:
\* with the mutex held, return the result if the callback has run, else
\* take the time; leave the loop for line 239 when the budget is used up.
UriLoop ==
    /\ su_pc = "loop"
    /\ IF property_received
         THEN /\ websocket_uri_property' = property_result
              /\ su_pc' = "uri_returned"
              /\ UNCHANGED wait_duration_ms
         ELSE /\ wait_duration_ms' = now
              /\ UNCHANGED websocket_uri_property
              /\ su_pc' = IF budget_left(now, timeout_ms)
                            THEN "loop" ELSE "uri_returned"
    /\ UNCHANGED <<prop, cb_pending, now, property_received, property_result,
                   deliveredAt, connection_uri, nx>>
    /\ UNCHANGED <<stamperVars, renderVars, mainVars, sigVars, chanVars, pipeVars>>

\* Lines 482-487: the connection is made for the property's URI, or for
\* localhost when the string is empty.
CreateConnection ==
    /\ su_pc = "uri_returned"
    /\ connection_uri' = IF websocket_uri_property # ""
                           THEN websocket_uri_property ELSE "localhost"
    /\ su_pc' = "new"
    /\ UNCHANGED <<prop, cb_pending, now, wait_duration_ms, property_received,
                   property_result, deliveredAt, websocket_uri_property, nx>>
    /\ UNCHANGED <<stamperVars, renderVars, mainVars, sigVars, chanVars, pipeVars>>

(***************************************************************************)
(* em_remote_experience_new and the destruction of what it built.          *)
(***************************************************************************)
\* em_stream_client_egl_begin_pbuffer: the scope is entered when the call
\* succeeds (its result is tested at line 951 only).
EglBegin(n, ok) ==
    [n EXCEPT !.log = Append(@, [op |-> "em_stream_client_egl_begin_pbuffer",
                                 held |-> n.egl > 0, ok |-> ok]),
              !.egl = IF ok THEN @ + 1 ELSE @]

\* em_stream_client_egl_end.
EglEnd(n) ==
    [n EXCEPT !.log = Append(@, [op |-> "em_stream_client_egl_end",
                                 held |-> n.egl > 0, ok |-> TRUE]),
              !.egl = IF @ > 0 THEN @ - 1 ELSE @]

\* A call that needs the EGL context to be current.
Scoped(n, op) ==
    [n EXCEPT !.log = Append(@, [op |-> op, held |-> n.egl > 0, ok |-> TRUE])]

\* Lines 682-714: em_remote_experience_dispose. The stream client is
\* stopped, the renderer is reset inside the EGL scope, the held sample is
\* released, the connection disconnected, the stream client destroyed.
em_remote_experience_dispose(n, eglOk) ==
    LET n1 == IF n.renderer
                THEN [EglEnd(Scoped(EglBegin(n, eglOk), "renderer reset"))
                        EXCEPT !.renderer = FALSE]
                ELSE n
    IN  [n1 EXCEPT !.prev_sample = 0,
                   !.connection = "disconnected",
                   !.stream_client = "destroyed"]

\* Mutant: the swapchain is left to the runtime.
em_remote_experience_finalize_spaces_only(n) ==
    [n EXCEPT
       !.destroyed = [h \in XrHandles |->
                        IF n.handle[h] /\ h # "swapchain"
                          THEN @[h] + 1 ELSE @[h]],
       !.handle = [h \in XrHandles |-> FALSE]]

\* Lines 715-732: em_remote_experience_finalize destroys each handle that is
\* not XR_NULL_HANDLE and clears it.
em_remote_experience_finalize(n) ==
    [n EXCEPT
       !.destroyed = [h \in XrHandles |->
                        IF n.handle[h] THEN @[h] + 1 ELSE @[h]],
       !.handle = [h \in XrHandles |-> FALSE]]

\* Lines 866-881: em_remote_experience_destroy on a non-null experience.
DestroyExperience(n, eglOk) ==
    [em_remote_experience_finalize(em_remote_experience_dispose(n, eglOk))
       EXCEPT !.self = "deleted"]

\* A failing step of em_remote_experience_new: the experience is destroyed
\* and nullptr returned.
NewFail(n, step, eglOk) ==
    [DestroyExperience(n, eglOk) EXCEPT !.ret = "null", !.failed = step]

SetupFrame ==
    /\ UNCHANGED <<prop, cb_pending, now, wait_duration_ms, property_received,
                   property_result, deliveredAt, websocket_uri_property,
                   connection_uri>>
    /\ UNCHANGED <<stamperVars, renderVars, mainVars, sigVars, chanVars, pipeVars>>

\* Lines 739-757: the null test of xr_info, then the experience is allocated.
NewEnter(infoOk) ==
    /\ su_pc = "new"
    /\ IF infoOk
         THEN /\ nx' = [nx EXCEPT !.self = "built"]
              /\ su_pc' = "procaddr"
         ELSE /\ nx' = [nx EXCEPT !.ret = "null", !.failed = "xr_info"]
              /\ su_pc' = "new_returned"
    /\ SetupFrame

\* Lines 759-777: the time-conversion function is looked up; then the
\* passthrough is made.
NewProcAddr(ok) ==
    /\ su_pc = "procaddr"
    /\ IF ok
         THEN /\ UNCHANGED nx
              /\ su_pc' = "egl_begin"
         ELSE /\ nx' = NewFail(nx, "xrGetInstanceProcAddr", TRUE)
              /\ su_pc' = "new_returned"
    /\ SetupFrame

\* Line 780: the EGL scope is entered; the result is not looked at.
NewEglBegin(ok) ==
    /\ su_pc = "egl_begin"
    /\ nx' = EglBegin(nx, ok)
    /\ su_pc' = "swapchain"
    /\ SetupFrame

\* Lines 782-803: xrCreateSwapchain.
NewSwapchain(ok) ==
    /\ su_pc = "swapchain"
    /\ LET n1 == Scoped(nx, "xrCreateSwapchain")
       IN  IF ok
             THEN /\ nx' = [n1 EXCEPT !.handle["swapchain"] = TRUE,
                                      !.created["swapchain"] = @ + 1]
                  /\ su_pc' = "enumerate"
             ELSE /\ nx' = NewFail(EglEnd(n1), "xrCreateSwapchain", TRUE)
                  /\ su_pc' = "new_returned"
    /\ SetupFrame

\* Lines 806-812: the swapchain images are enumerated and given framebuffers.
NewEnumerate(ok) ==
    /\ su_pc = "enumerate"
    /\ LET n1 == Scoped(nx, "enumerateAndGenerateFramebuffers")
       IN  IF ok
             THEN /\ nx' = n1
                  /\ su_pc' = "renderer"
             ELSE /\ nx' = NewFail(EglEnd(n1),
                                   "enumerateAndGenerateFramebuffers", TRUE)
                  /\ su_pc' = "new_returned"
    /\ SetupFrame

\* Lines 815-828: the renderer is made and set up; an exception of
\* setupRender resets it; the EGL scope is left either way.
NewRenderer(ok, eglOk) ==
    /\ su_pc = "renderer"
    /\ LET n1 == Scoped([nx EXCEPT !.renderer = TRUE], "setupRender")
       IN  IF ok
             THEN /\ nx' = EglEnd(n1)
                  /\ su_pc' = "world"
             ELSE /\ nx' = NewFail(EglEnd(Scoped(n1, "renderer reset")),
                                   "setupRender", eglOk)
                  /\ su_pc' = "new_returned"
    /\ SetupFrame

\* Lines 830-863: the world space, then the view space; after both the
\* experience is returned.
NewSpace(ok, eglOk) ==
    /\ su_pc \in {"world", "view"}
    /\ LET h == IF su_pc = "world" THEN "worldSpace" ELSE "viewSpace"
       IN  IF ok
             THEN /\ nx' = [nx EXCEPT !.handle[h] = TRUE,
                                      !.created[h] = @ + 1,
                                      !.ret = IF su_pc = "view"
                                                THEN "self" ELSE @]
                  /\ su_pc' = IF su_pc = "world" THEN "view"
                              ELSE "new_returned"
             ELSE /\ nx' = NewFail(nx, h, eglOk)
                  /\ su_pc' = "new_returned"
    /\ SetupFrame

\* Line 529: android_main destroys the experience after the main loop.
SetupDestroy(eglOk) ==
    /\ su_pc = "new_returned"
    /\ nx.ret = "self"
    /\ nx' = DestroyExperience(nx, eglOk)
    /\ su_pc' = "destroyed"
    /\ SetupFrame

NextSetup ==
    \/ \E p \in PropertyValues : UriFind(p)
    \/ property_read_cb
    \/ Tick
    \/ UriLoop
    \/ CreateConnection
    \/ \E infoOk \in BOOLEAN : NewEnter(infoOk)
    \/ \E ok \in BOOLEAN : NewProcAddr(ok)
    \/ \E ok \in BOOLEAN : NewEglBegin(ok)
    \/ \E ok \in BOOLEAN : NewSwapchain(ok)
    \/ \E ok \in BOOLEAN : NewEnumerate(ok)
    \/ \E ok \in BOOLEAN, eglOk \in BOOLEAN : NewRenderer(ok, eglOk)
    \/ \E ok \in BOOLEAN, eglOk \in BOOLEAN : NewSpace(ok, eglOk)
    \/ \E eglOk \in BOOLEAN : SetupDestroy(eglOk)

SpecSetup == Init /\ [][NextSetup]_vars

\* The main thread runs and the clock advances; the callback is the
\* platform's to deliver.
SetupRuns ==
    /\ WF_vars(\E p \in PropertyValues : UriFind(p))
    /\ WF_vars(Tick)
    /\ WF_vars(UriLoop)
    /\ WF_vars(CreateConnection)

SpecSetupLive == Init /\ [][NextSetup]_vars /\ SetupRuns

(***************************************************************************)
(* Claims about the setup.                                                 *)
(***************************************************************************)
UriReturned == su_pc \notin {"find", "loop"}

\* C28: reading the property ends; it returns the property's value when the
\* callback delivered it within the budget, and the empty string when the
\* property is not set or the loop saw the budget used up without the
\* value; the connection is made for the returned URI, or for localhost when
\* that is empty.
C28_UriRead ==
    /\ <>UriReturned
    /\ [](UriReturned =>
            /\ prop = "unset" => websocket_uri_property = ""
            /\ (deliveredAt >= 0 /\ deliveredAt < timeout_ms)
                  => websocket_uri_property = prop
            /\ websocket_uri_property # ""
                  => websocket_uri_property = prop /\ deliveredAt >= 0
            /\ (wait_duration_ms >= timeout_ms \/ deliveredAt = -1)
                  => websocket_uri_property = ""
            /\ connection_uri # "none" =>
                  connection_uri = IF websocket_uri_property # ""
                                     THEN websocket_uri_property
                                     ELSE "localhost")

C28_Witness ==
    /\ connection_uri = "ws://host"
    /\ deliveredAt > 0

C28_WitnessTimeout ==
    /\ connection_uri = "localhost"
    /\ prop = "ws://host"
    /\ wait_duration_ms >= timeout_ms

\* C29: when em_remote_experience_new has returned null, every XR handle it
\* created has been destroyed exactly once, no sample is held, and the EGL
\* scope is not held.
C29_FailedConstruction ==
    nx.ret = "null" =>
        /\ \A h \in XrHandles :
              /\ nx.created[h] <= 1
              /\ nx.destroyed[h] = nx.created[h]
              /\ ~nx.handle[h]
        /\ nx.self \in {"none", "deleted"}
        /\ nx.prev_sample = 0
        /\ nx.egl = 0

C29_Witness ==
    /\ nx.ret = "null"
    /\ nx.failed = "viewSpace"
    /\ nx.destroyed["swapchain"] = 1
    /\ nx.destroyed["worldSpace"] = 1

\* C30: in construction and destruction the EGL scope is entered only when
\* not held, left only when held, every call that needs the context is made
\* with the scope held, and the scope is free once the operation returned.
C30_EglScope ==
    /\ \A i \in DOMAIN nx.log :
          IF nx.log[i].op = "em_stream_client_egl_begin_pbuffer"
            THEN ~nx.log[i].held
            ELSE nx.log[i].held
    /\ su_pc \in {"new_returned", "destroyed"} => nx.egl = 0

(***************************************************************************)
(* Further claims about the render loop, checked under SpecRender.         *)
(***************************************************************************)
\* The place of the first occurrence of a call in the log of the iteration.
Pos(calls, c) == CHOOSE i \in DOMAIN calls : calls[i] = c

\* C31: in every iteration the swapchain image is acquired at most once and
\* only after try_pull_sample returned a new sample (the iteration returns
\* NEW_SAMPLE exactly when it acquired); an iteration that reached xrEndFrame
\* after an acquire made the calls xrBeginFrame, acquire, wait, draw, release,
\* xrEndFrame in this order with exactly one release; and a failed acquire or
\* wait leaves the process aborted with no draw, release or xrEndFrame.
C31_SwapchainProtocol ==
    LET c == fr.calls
        acq == Count(c, "xrAcquireSwapchainImage")
    IN  /\ acq <= 1
        /\ Count(c, "xrReleaseSwapchainImage") <= acq
        /\ acq = 1 =>
              /\ Count(c, "em_stream_client_try_pull_sample") = 1
              /\ Pos(c, "xrBeginFrame") < Pos(c, "xrAcquireSwapchainImage")
              /\ Pos(c, "em_stream_client_try_pull_sample")
                    < Pos(c, "xrAcquireSwapchainImage")
              /\ rt_pc \in {"adopt", "assign"} => sample.id # 0
        /\ (IterationReturned \/ rt_pc = "end") =>
              (acq = 1 <=> sample.id # 0
                           \/ fr.prResult = "EM_POLL_RENDER_RESULT_NEW_SAMPLE")
        /\ (acq = 1 /\ Count(c, "xrEndFrame") >= 1) =>
              /\ Count(c, "xrWaitSwapchainImage") = 1
              /\ Count(c, "draw") = 1
              /\ Count(c, "xrReleaseSwapchainImage") = 1
              /\ Count(c, "xrEndFrame") = 1
              /\ Pos(c, "xrAcquireSwapchainImage")
                    < Pos(c, "xrWaitSwapchainImage")
              /\ Pos(c, "xrWaitSwapchainImage") < Pos(c, "draw")
              /\ Pos(c, "draw") < Pos(c, "xrReleaseSwapchainImage")
              /\ Pos(c, "xrReleaseSwapchainImage") < Pos(c, "xrEndFrame")
        /\ fr.failed \in {"xrAcquireSwapchainImage", "xrWaitSwapchainImage"} =>
              /\ rt_pc = "aborted"
              /\ Count(c, "draw") = 0
              /\ Count(c, "xrReleaseSwapchainImage") = 0
              /\ Count(c, "xrEndFrame") = 0

\* C31 witness: the second iteration pulled a new sample, acquired, drew,
\* released and ended its frame.
C31_Witness ==
    /\ IterationReturned
    /\ iter = 2
    /\ fr.prResult = "EM_POLL_RENDER_RESULT_NEW_SAMPLE"
    /\ Count(fr.calls, "xrAcquireSwapchainImage") = 1
    /\ Count(fr.calls, "xrReleaseSwapchainImage") = 1
    /\ Count(fr.calls, "xrEndFrame") = 1

\* C31 witness of the fatal path: xrWaitSwapchainImage failed.
C31_WitnessAbort ==
    /\ rt_pc = "aborted"
    /\ fr.failed = "xrWaitSwapchainImage"

\* The sample the draw of this iteration used: the new one until line 1133
\* stores it, the held one afterwards.
DrawnSample == IF rt_pc \in {"adopt", "assign"} THEN sample ELSE prev_sample

\* C32: the policy's blend mode changes only in the step of lines 1069-1124
\* and only when the newly pulled sample's env_blend_mode is not UNSET, and it
\* becomes exactly that mode; every other step (UNSET sample, reused sample,
\* no sample, shouldRender false, frame end, destroy) leaves it alone. A draw
\* of a sample with a non-UNSET mode was made with the policy already at that
\* mode and with the sample's additive_black_threshold as black_threshold.
C32_BlendModeFromSample ==
    /\ [][/\ blend_mode' # blend_mode =>
                /\ rt_pc = "draw"
                /\ sample.env_blend_mode # 0
                /\ blend_mode' = sample.env_blend_mode
          /\ (rt_pc = "draw" /\ rt_pc' # "draw" /\ sample.env_blend_mode # 0) =>
                blend_mode' = sample.env_blend_mode]_vars
    /\ []((/\ rt_pc \in {"adopt", "assign", "end", "idle"}
           /\ Count(fr.calls, "draw") = 1
           /\ DrawnSample.env_blend_mode # 0) =>
              /\ fr.drawInfo.blend_mode = DrawnSample.env_blend_mode
              /\ fr.drawInfo.black_threshold
                    = DrawnSample.additive_black_threshold
              /\ blend_mode = DrawnSample.env_blend_mode)

\* C32 witness: after a sample that set ALPHA_BLEND, a sample with ADDITIVE
\* and threshold 0.02 was drawn with ADDITIVE and 0.02.
C32_Witness ==
    /\ IterationReturned
    /\ fr.prResult = "EM_POLL_RENDER_RESULT_NEW_SAMPLE"
    /\ prev_sample.id = 2
    /\ prev_sample.env_blend_mode = XR_ENVIRONMENT_BLEND_MODE_ADDITIVE
    /\ fr.drawInfo = [blend_mode |-> XR_ENVIRONMENT_BLEND_MODE_ADDITIVE,
                      black_threshold |-> 2]
    /\ blend_mode = XR_ENVIRONMENT_BLEND_MODE_ADDITIVE

\* C32 witness of the mode being kept: an UNSET sample was drawn with the
\* default threshold while the policy stayed at ALPHA_BLEND.
C32_WitnessUnset ==
    /\ IterationReturned
    /\ fr.prResult = "EM_POLL_RENDER_RESULT_NEW_SAMPLE"
    /\ prev_sample.env_blend_mode = 0
    /\ fr.drawInfo = [blend_mode |-> XR_ENVIRONMENT_BLEND_MODE_ALPHA_BLEND,
                      black_threshold |-> DefaultBlackThreshold]

\* C33 (as claimed): when the newly pulled sample has no metadata (mode UNSET
\* and zero poses) while an earlier sample is held, the projection views of
\* the frame carry the held sample's poses.
C33_MetadataLessSamplePoses ==
    (/\ rt_pc = "adopt"
     /\ sample.env_blend_mode = 0
     /\ sample.poses = <<0, 0>>
     /\ prev_sample.id # 0) =>
        fr.projectionViews = prev_sample.poses

\* C36 (as claimed): an iteration that returned after a successful
\* xrBeginFrame made exactly one xrEndFrame call.
C36_BeginFrameEnded ==
    (/\ IterationReturned
     /\ Count(fr.calls, "xrBeginFrame") = 1
     /\ fr.failed # "xrBeginFrame") =>
        Count(fr.calls, "xrEndFrame") = 1

\* C34 (as claimed): whenever an iteration has returned, the held sample was
\* pulled by that iteration or by the one before it.
C34_HeldOneCycle ==
    (IterationReturned /\ prev_sample.id # 0) =>
        iter - prev_sample.pulled_iter <= 1

(***************************************************************************)
(* Further claim about the stamper, checked under SpecStamper.             *)
(***************************************************************************)
\* C37 (as claimed): no probe reads the DownMessage slot while it has never
\* been published: neither the read in progress, nor one that crashed, nor
\* one recorded in the trail of the packet found the slot unpublished.
C37_SlotPublishedBeforeRead ==
    /\ read_state # "unpublished"
    /\ crashed # "unpublished"
    /\ \A i \in DOMAIN pkt.trail : pkt.trail[i].read # "unpublished"

(***************************************************************************)
(* Further claim about the main loop, checked under SpecMain.              *)
(***************************************************************************)
\* C39 (as claimed): once frames have been rendered and while the last
\* session event is the STOPPING that made poll_events call xrEndSession,
\* poll_and_render_frame is neither called nor under way.
C39_NoRenderOnEndedSession ==
    (renders > 0 /\ lastEvent.xrEndSession = 1) =>
        ml_pc \notin {"render", "in_render"}

(***************************************************************************)
(* The server's data channels: one per client, made by                     *)
(* webrtc_client_connected_cb, with the keep-alive timer data_channel_open_cb *)
(* starts; all of them share egp->data_channel and egp->timeout_src_id.    *)
(***************************************************************************)
\* The process is running: no create-data-channel has failed its assert.
ChannelsAlive == \A c \in Clients : chan[c] # "aborted"

\* Lines 352-369 of webrtc_client_connected_cb: create-data-channel stores
\* the new channel in egp->data_channel, whatever was there; a NULL channel
\* fails the assert, otherwise the handlers are connected with egp as their
\* user data.
create_data_channel(c, ok) ==
    /\ ChannelsAlive
    /\ chan[c] = "none"
    /\ data_channel' = IF ok THEN c ELSE 0
    /\ chan' = [chan EXCEPT ![c] = IF ok THEN "created" ELSE "aborted"]
    /\ UNCHANGED <<timeout_src_id, timers, unrefs, lastFire>>
    /\ UNCHANGED <<stamperVars, renderVars, mainVars, sigVars, setupVars,
                   pipeVars>>

\* Lines 209-215: on-open of a client's channel adds a timeout source that
\* sends on that channel every 3 seconds and stores its id in the one field.
data_channel_open_cb(c) ==
    /\ ChannelsAlive
    /\ chan[c] = "created"
    /\ chan' = [chan EXCEPT ![c] = "open"]
    /\ timers' = Append(timers, [channel |-> c, attached |-> TRUE])
    /\ timeout_src_id' = Len(timers) + 1
    /\ UNCHANGED <<data_channel, unrefs, lastFire>>
    /\ UNCHANGED <<stamperVars, renderVars, mainVars, sigVars, setupVars,
                   pipeVars>>

\* Line 222: g_clear_handle_id(&egp->timeout_src_id, g_source_remove) removes
\* the source whose id the field holds, if it holds one.
g_clear_handle_id(ts, id) ==
    IF id # 0 THEN [ts EXCEPT ![id].attached = FALSE] ELSE ts

\* Lines 217-224: on-close of a client's channel removes the source named by
\* egp->timeout_src_id and drops the reference egp->data_channel holds,
\* clearing both fields.
data_channel_close_cb(c) ==
    /\ ChannelsAlive
    /\ chan[c] = "open"
    /\ chan' = [chan EXCEPT ![c] = "closed"]
    /\ timers' = g_clear_handle_id(timers, timeout_src_id)
    /\ timeout_src_id' = 0
    /\ unrefs' = IF data_channel # 0
                   THEN [unrefs EXCEPT ![data_channel] = @ + 1] ELSE unrefs
    /\ data_channel' = 0
    /\ UNCHANGED lastFire
    /\ UNCHANGED <<stamperVars, renderVars, mainVars, sigVars, setupVars,
                   pipeVars>>

\* Lines 197-207: the main loop runs an attached source: it sends a string
\* and a buffer on the channel it was added for and stays attached
\* (G_SOURCE_CONTINUE).
datachannel_send_message(t) ==
    /\ ChannelsAlive
    /\ t \in DOMAIN timers
    /\ timers[t].attached
    /\ lastFire' = [timer |-> t, channel |-> timers[t].channel,
                    state |-> chan[timers[t].channel]]
    /\ UNCHANGED <<data_channel, timeout_src_id, chan, timers, unrefs>>
    /\ UNCHANGED <<stamperVars, renderVars, mainVars, sigVars, setupVars,
                   pipeVars>>

NextChannels ==
    \/ \E c \in Clients, ok \in BOOLEAN : create_data_channel(c, ok)
    \/ \E c \in Clients : data_channel_open_cb(c)
    \/ \E c \in Clients : data_channel_close_cb(c)
    \/ \E t \in 1..Cardinality(Clients) : datachannel_send_message(t)

SpecChannels == Init /\ [][NextChannels]_vars

\* C38 (as claimed): every open channel has an attached timer of its own and
\* every attached timer sends on an open channel; the reference to a
\* client's channel is dropped only once that channel has closed; and no
\* timer has run on a closed channel.
C38_PerClientChannelState ==
    /\ \A c \in Clients :
          /\ chan[c] = "open" =>
                \E t \in DOMAIN timers :
                    timers[t].channel = c /\ timers[t].attached
          /\ unrefs[c] > 0 => chan[c] = "closed"
    /\ \A t \in DOMAIN timers :
          timers[t].attached => chan[timers[t].channel] = "open"
    /\ lastFire.state # "closed"

(***************************************************************************)
(* The server's pipeline: ems_gstreamer_pipeline_play, the bus watch       *)
(* gst_bus_cb run by the main-loop thread, the source's end of stream, and *)
(* ems_gstreamer_pipeline_stop_if_playing / _stop on the caller's thread.  *)
(***************************************************************************)
\* The pad probes ems_gstreamer_pipeline_create and the handlers install on
\* the source's pad: none. The file's two gst_pad_add_probe calls are for
\* rtppay's src pad (line 321) and the tee's src pad (line 485); src_event_cb
\* (lines 531-551) is passed to neither.
SourcePadProbes == {}

\* The message types gst_bus_timed_pop_filtered is asked for (line 695).
StopFilter == {"GST_MESSAGE_EOS", "GST_MESSAGE_ERROR"}

\* Lines 643-660: play makes the main loop, sets the pipeline PLAYING
\* (asserting that this did not fail) and starts the thread that runs the
\* loop, and with it the bus watch added at line 776.
ems_gstreamer_pipeline_play(ok) ==
    /\ pl_crashed = "no"
    /\ pl_pc = "created"
    /\ IF ok
         THEN /\ pl_state' = "GST_STATE_PLAYING"
              /\ pl_pc' = "playing"
              /\ UNCHANGED pl_crashed
         ELSE /\ pl_crashed' = "g_assert"
              /\ UNCHANGED <<pl_state, pl_pc>>
    /\ UNCHANGED <<bus, flight, src_eos, restart_tasks, posted, popped,
                   watched>>
    /\ UNCHANGED <<stamperVars, renderVars, mainVars, sigVars, setupVars,
                   chanVars>>

\* The source reaches its end of stream: the EOS event leaves through the
\* source's pad. src_event_cb would drop it and schedule restart_source
\* (lines 541-550); a pad with no such probe lets it go downstream.
SourceEos ==
    /\ pl_crashed = "no"
    /\ pl_state = "GST_STATE_PLAYING"
    /\ src_eos < MaxSourceEos
    /\ src_eos' = src_eos + 1
    /\ IF "src_event_cb" \in SourcePadProbes
         THEN /\ restart_tasks' = restart_tasks + 1
              /\ UNCHANGED flight
         ELSE /\ flight' = flight + 1
              /\ UNCHANGED restart_tasks
    /\ UNCHANGED <<pl_pc, pl_state, bus, posted, popped, watched, pl_crashed>>
    /\ UNCHANGED <<stamperVars, renderVars, mainVars, sigVars, setupVars,
                   chanVars>>

\* An EOS event has reached the sinks: the pipeline posts the EOS message.
SinkEos ==
    /\ pl_crashed = "no"
    /\ pl_state = "GST_STATE_PLAYING"
    /\ flight > 0
    /\ flight' = flight - 1
    /\ bus' = Append(bus, "GST_MESSAGE_EOS")
    /\ UNCHANGED <<pl_pc, pl_state, src_eos, restart_tasks, posted, popped,
                   watched, pl_crashed>>
    /\ UNCHANGED <<stamperVars, renderVars, mainVars, sigVars, setupVars,
                   chanVars>>

\* An element posts an error or a warning on the bus.
PostMessage(type) ==
    /\ pl_crashed = "no"
    /\ pl_state = "GST_STATE_PLAYING"
    /\ posted < MaxPosted
    /\ posted' = posted + 1
    /\ bus' = Append(bus, type)
    /\ UNCHANGED <<pl_pc, pl_state, flight, src_eos, restart_tasks, popped,
                   watched, pl_crashed>>
    /\ UNCHANGED <<stamperVars, renderVars, mainVars, sigVars, setupVars,
                   chanVars>>

\* Lines 83-114: the bus watch, run by the main-loop thread for the message
\* at the head of the bus: errors and warnings are logged, EOS is g_error,
\* which ends the process.
gst_bus_cb ==
    /\ pl_crashed = "no"
    /\ pl_pc # "created"
    /\ bus # <<>>
    /\ watched' = Head(bus)
    /\ bus' = Tail(bus)
    /\ pl_crashed' = IF Head(bus) = "GST_MESSAGE_EOS" THEN "Got EOS!!"
                     ELSE pl_crashed
    /\ UNCHANGED <<pl_pc, pl_state, flight, src_eos, restart_tasks, posted,
                   popped>>
    /\ UNCHANGED <<stamperVars, renderVars, mainVars, sigVars, setupVars,
                   chanVars>>

\* Lines 663-679: stop_if_playing asks for the pipeline's state and calls
\* stop when the answer came and is PLAYING; otherwise it returns.
ems_gstreamer_pipeline_stop_if_playing(getOk) ==
    /\ pl_crashed = "no"
    /\ pl_pc \in {"playing", "stopped"}
    /\ pl_pc' = IF getOk /\ pl_state = "GST_STATE_PLAYING"
                  THEN "send_eos" ELSE "returned"
    /\ UNCHANGED <<pl_state, bus, flight, src_eos, restart_tasks, posted,
                   popped, watched, pl_crashed>>
    /\ UNCHANGED <<stamperVars, renderVars, mainVars, sigVars, setupVars,
                   chanVars>>

\* Lines 688-689: stop sends an EOS event into the pipeline.
StopSendEos ==
    /\ pl_crashed = "no"
    /\ pl_pc = "send_eos"
    /\ flight' = flight + 1
    /\ pl_pc' = "pop"
    /\ UNCHANGED <<pl_state, bus, src_eos, restart_tasks, posted, popped,
                   watched, pl_crashed>>
    /\ UNCHANGED <<stamperVars, renderVars, mainVars, sigVars, setupVars,
                   chanVars>>

\* The first message on the bus whose type is in the filter (0: none).
FirstMatch(b) ==
    IF \E i \in DOMAIN b : b[i] \in StopFilter
      THEN CHOOSE i \in DOMAIN b :
               /\ b[i] \in StopFilter
               /\ \A j \in 1..(i - 1) : b[j] \notin StopFilter
      ELSE 0

\* Lines 692-697: gst_bus_timed_pop_filtered takes the first EOS or error
\* message off the bus, discarding the messages before it, or gives up after
\* 3 seconds with none; stop does not look at what it got.
StopPop ==
    /\ pl_crashed = "no"
    /\ pl_pc = "pop"
    /\ LET i == FirstMatch(bus)
       IN  IF i # 0
             THEN /\ popped' = bus[i]
                  /\ bus' = SubSeq(bus, i + 1, Len(bus))
             ELSE /\ popped' = "timeout"
                  /\ UNCHANGED bus
    /\ pl_pc' = "set_null"
    /\ UNCHANGED <<pl_state, flight, src_eos, restart_tasks, posted, watched,
                   pl_crashed>>
    /\ UNCHANGED <<stamperVars, renderVars, mainVars, sigVars, setupVars,
                   chanVars>>

\* Lines 699-701: stop sets the pipeline to NULL, which stops the data flow
\* and flushes the bus.
StopSetNull ==
    /\ pl_crashed = "no"
    /\ pl_pc = "set_null"
    /\ pl_state' = "GST_STATE_NULL"
    /\ bus' = <<>>
    /\ flight' = 0
    /\ pl_pc' = "stopped"
    /\ UNCHANGED <<src_eos, restart_tasks, posted, popped, watched,
                   pl_crashed>>
    /\ UNCHANGED <<stamperVars, renderVars, mainVars, sigVars, setupVars,
                   chanVars>>

NextPipeline ==
    \/ \E ok \in BOOLEAN : ems_gstreamer_pipeline_play(ok)
    \/ SourceEos
    \/ SinkEos
    \/ \E type \in {"GST_MESSAGE_ERROR", "GST_MESSAGE_WARNING"} :
          PostMessage(type)
    \/ gst_bus_cb
    \/ \E getOk \in BOOLEAN : ems_gstreamer_pipeline_stop_if_playing(getOk)
    \/ StopSendEos
    \/ StopPop
    \/ StopSetNull

SpecPipeline == Init /\ [][NextPipeline]_vars

\* C35 (as claimed): every end of stream of the source has scheduled one
\* restart_source idle task, and while the pipeline plays and nobody stops
\* it the server has not been ended by an EOS.
C35_SourceEosRestarts ==
    /\ restart_tasks = src_eos
    /\ pl_pc = "playing" => pl_crashed # "Got EOS!!"

\* C40 (as claimed): once stop has been entered, and the source itself has
\* produced no EOS, the bus watch has not taken an EOS message into its
\* fatal branch; and stop returns with the pipeline in state NULL.
C40_StopSafeAgainstWatch ==
    /\ (pl_pc \in {"send_eos", "pop", "set_null", "stopped"} /\ src_eos = 0)
          => (watched # "GST_MESSAGE_EOS" /\ pl_crashed # "Got EOS!!")
    /\ pl_pc = "stopped" => pl_state = "GST_STATE_NULL"

=============================================================================
